---- MODULE Spec2Model ----
(***************************************************************************)
(* A model of the code scanner: the line-oriented Fortran extraction       *)
(* (language/scanner_fortran.ts), the strategy registry                    *)
(* (language/index.ts), the ignore-aware walker                            *)
(* (core/file_scanner_core.ts) and the indexing orchestrator (scanner.ts). *)
(*                                                                         *)
(* Text is modelled as a sequence of one-character strings, so that        *)
(* splitting, trimming, lower-casing and the regular expressions of the    *)
(* source are computed character by character.                             *)
(***************************************************************************)
EXTENDS Integers, Sequences, FiniteSets, TLC

\* one run of FortranScanner.extractTags on a text (specification FSpec)
VARIABLES source, originalLines, i, stack, tags, fpc
\* the tree, the rule lines of the rule files, the persisted index, the
\* record of the last run of main, where that run is, and the Map of an
\* incremental update (specification Spec)
VARIABLES tree, ruleLines, indexFile, hist, pc, contextMap
\* one run of FileScannerCore.scan (specification WSpec): its options, the
\* entries still to visit, the directories read, the result, and where it is
VARIABLES opts, pending, dirsRead, out, wpc
\* one call of getActiveScanners (specification RSpec): its argument, the
\* list it builds, the index and the position of its loop; and the warnings
\* the run has printed
VARIABLES request, chosen, rk, rpc, warned
\* one run of the constructor of FileScannerCore (specification CSpec): the
\* rule files under the root, the rules added to this.ig, the index and the
\* position of the loop over the rule files
VARIABLES igFiles, ig, ck, cpc
\* one visit of a VariableDeclaration by TypeScriptScanner (specification
\* DSpec): the node, the index of the loop over its declarators, the tags
\* pushed, and the position of the visitor
VARIABLES statement, dk, dtags, dpc
\* two invocations of runIncrementalUpdate on one root (specification
\* PSpec): procs[p] is the invocation's position, its updatePaths, the index
\* of its loop, the contexts it loaded and its Map; events records the order
\* of the loads and the writes
VARIABLES procs, events

fvars == <<source, originalLines, i, stack, tags, fpc>>
ovars == <<tree, ruleLines, indexFile, hist, pc, contextMap>>
wvars == <<opts, pending, dirsRead, out, wpc>>
rvars == <<request, chosen, rk, rpc, warned>>
cvars == <<igFiles, ig, ck, cpc>>
dvars == <<statement, dk, dtags, dpc>>
pvars == <<procs, events>>
vars == <<fvars, ovars, wvars, rvars, cvars, dvars, pvars>>

(***************************************************************************)
(* Bounds of the model.                                                    *)
(***************************************************************************)
\* the longest Fortran file of FSpec, in lines
MaxLines == 4
\* the most paths one incremental update is asked for
MaxUpdate == 2
\* the most language identifiers one request holds
MaxLangs == 3
\* the most declarators one variable declaration holds
MaxDecls == 2

(***************************************************************************)
(* Characters and strings.                                                 *)
(***************************************************************************)
UpperLetters == <<"A","B","C","D","E","F","G","H","I","J","K","L","M",
                  "N","O","P","Q","R","S","T","U","V","W","X","Y","Z">>

LowerLetters == <<"a","b","c","d","e","f","g","h","i","j","k","l","m",
                  "n","o","p","q","r","s","t","u","v","w","x","y","z">>

Digits == {"0","1","2","3","4","5","6","7","8","9"}

Range(s) == { s[k] : k \in DOMAIN s }

\* \s of a JavaScript regular expression, and what String.trim removes
IsSpace(c) == c \in {" ", "\t", "\n", "\r"}

\* \w of a JavaScript regular expression
WordChars == Range(UpperLetters) \cup Range(LowerLetters) \cup Digits \cup {"_"}

IsWordChar(c) == c \in WordChars

LowerOf ==
  [c \in Range(UpperLetters) |->
     LowerLetters[CHOOSE k \in DOMAIN UpperLetters : UpperLetters[k] = c]]

ToLowerChar(c) == IF c \in DOMAIN LowerOf THEN LowerOf[c] ELSE c

\* String.prototype.toLowerCase
ToLowerCase(s) == [k \in DOMAIN s |-> ToLowerChar(s[k])]

\* the number of leading characters of s that satisfy IsSpace
LeadingSpaces(s) ==
  CHOOSE n \in 0..Len(s) :
    /\ \A k \in 1..n : IsSpace(s[k])
    /\ n = Len(s) \/ ~IsSpace(s[n + 1])

TrailingSpaces(s) ==
  CHOOSE n \in 0..Len(s) :
    /\ \A k \in (Len(s) - n + 1)..Len(s) : IsSpace(s[k])
    /\ n = Len(s) \/ ~IsSpace(s[Len(s) - n])

\* String.prototype.trim
Trim(s) ==
  IF LeadingSpaces(s) = Len(s) THEN <<>>
  ELSE SubSeq(s, LeadingSpaces(s) + 1, Len(s) - TrailingSpaces(s))

\* the number of leading word characters of s
LeadingWord(s) ==
  CHOOSE n \in 0..Len(s) :
    /\ \A k \in 1..n : IsWordChar(s[k])
    /\ n = Len(s) \/ ~IsWordChar(s[n + 1])

Drop(s, n) == SubSeq(s, n + 1, Len(s))

StartsWith(s, p) == Len(s) >= Len(p) /\ SubSeq(s, 1, Len(p)) = p

\* source.split(/\r?\n/): the pieces between line terminators ("\n", or
\* "\r\n"); a text that ends with a terminator yields a last, empty piece
SplitLines(s) ==
  LET breaks == { k \in 1..Len(s) : s[k] = "\n" }
      Break(n) == IF n = 0 THEN 0
                  ELSE IF n > Cardinality(breaks) THEN Len(s) + 1
                  ELSE CHOOSE k \in breaks :
                         Cardinality({ j \in breaks : j < k }) = n - 1
      Piece(n) ==
        LET from == Break(n - 1) + 1
            nl == Break(n)
            to == IF nl <= Len(s) /\ nl - 1 >= from /\ s[nl - 1] = "\r"
                  THEN nl - 2 ELSE nl - 1
        IN SubSeq(s, from, to)
  IN [n \in 1..(Cardinality(breaks) + 1) |-> Piece(n)]

\* Array.prototype.join("\n")
RECURSIVE JoinLines(_)
JoinLines(ls) ==
  IF ls = <<>> THEN <<>>
  ELSE IF Len(ls) = 1 THEN ls[1]
  ELSE ls[1] \o <<"\n">> \o JoinLines(Tail(ls))

\* line.split("!")[0]
BeforeBang(s) ==
  LET bangs == { k \in 1..Len(s) : s[k] = "!" }
  IN IF bangs = {} THEN s
     ELSE SubSeq(s, 1, (CHOOSE k \in bangs : \A j \in bangs : k <= j) - 1)

(***************************************************************************)
(* FortranScanner.extractTags: the patterns and the per-line tests.        *)
(***************************************************************************)
KwProgram == <<"p","r","o","g","r","a","m">>
KwModule == <<"m","o","d","u","l","e">>
KwSubroutine == <<"s","u","b","r","o","u","t","i","n","e">>
KwFunction == <<"f","u","n","c","t","i","o","n">>
KwType == <<"t","y","p","e">>
KwEnd == <<"e","n","d">>

\* the ordered opener patterns /^\s*<keyword>\s+(\w+)/i
patterns ==
  << [kind |-> "program", keyword |-> KwProgram],
     [kind |-> "module", keyword |-> KwModule],
     [kind |-> "subroutine", keyword |-> KwSubroutine],
     [kind |-> "function", keyword |-> KwFunction],
     [kind |-> "type", keyword |-> KwType] >>

\* regex.exec(codePart)[1] for /^\s*<keyword>\s+(\w+)/i, or <<>> when the
\* pattern does not match
OpenerName(keyword, codePart) ==
  LET s1 == Drop(codePart, LeadingSpaces(codePart))
      s2 == Drop(s1, Len(keyword))
      s3 == Drop(s2, LeadingSpaces(s2))
  IN IF StartsWith(ToLowerCase(s1), keyword) /\ LeadingSpaces(s2) >= 1
     THEN SubSeq(s3, 1, LeadingWord(s3))
     ELSE <<>>

\* /^\s*[cC\*!]/.test(line)
IsCommentLine(line) ==
  LET s == Drop(line, LeadingSpaces(line))
  IN s # <<>> /\ Head(s) \in {"c", "C", "*", "!"}

\* a code part that keeps the letter case of the line
CodePartKeepsCase(line) == Trim(BeforeBang(line))

\* line.split("!")[0].trim().toLowerCase()
CodePart(line) == ToLowerCase(Trim(BeforeBang(line)))

\* /^\s*end\b/.test(codePart)
IsCloser(codePart) ==
  LET s == Drop(codePart, LeadingSpaces(codePart))
  IN /\ StartsWith(s, KwEnd)
     /\ (Len(s) = 3 \/ ~IsWordChar(s[4]))

\* the index of the first pattern whose keyword starts codePart, whether a
\* name follows it or not
FirstKeyword(codePart) ==
  LET s == Drop(codePart, LeadingSpaces(codePart))
  IN IF \E k \in DOMAIN patterns : StartsWith(s, patterns[k].keyword)
     THEN CHOOSE k \in DOMAIN patterns :
            /\ StartsWith(s, patterns[k].keyword)
            /\ \A j \in 1..(k - 1) : ~StartsWith(s, patterns[j].keyword)
     ELSE 0

\* the index of the first pattern that matches codePart, 0 when none does
FirstPattern(codePart) ==
  IF \E k \in DOMAIN patterns : OpenerName(patterns[k].keyword, codePart) # <<>>
  THEN CHOOSE k \in DOMAIN patterns :
         /\ OpenerName(patterns[k].keyword, codePart) # <<>>
         /\ \A j \in 1..(k - 1) : OpenerName(patterns[j].keyword, codePart) = <<>>
  ELSE 0

(***************************************************************************)
(* FortranScanner.extractTags: the loop body and the end-of-file loop.     *)
(* A scan state is [stack, tags]; idx is the 0-based loop index i.         *)
(***************************************************************************)
\* a snippet that keeps the white space around it
SnippetUntrimmed(lines, from, to) == JoinLines(SubSeq(lines, from + 1, to))

\* originalLines.slice(from, to).join("\n").trim()
Snippet(lines, from, to) == Trim(JoinLines(SubSeq(lines, from + 1, to)))

\* the opener loop: the first matching pattern pushes a record
PushOpener(codePart, idx, stk) ==
  LET k == FirstPattern(codePart)
  IN IF k = 0 THEN stk
     ELSE Append(stk, [kind |-> patterns[k].kind,
                         name |-> OpenerName(patterns[k].keyword, codePart),
                         startLine |-> idx + 1])

\* a record popped from the stack, finalized
Finalize(lines, rec, endLine) ==
  [kind |-> rec.kind, name |-> rec.name, startLine |-> rec.startLine,
   endLine |-> endLine,
   code |-> Snippet(lines, rec.startLine - 1, endLine)]

\* the closer test: a line that starts with the word end pops the top record
CloseOnEnd(lines, codePart, idx, st) ==
  IF IsCloser(codePart) /\ Len(st.stack) > 0
  THEN [stack |-> SubSeq(st.stack, 1, Len(st.stack) - 1),
        tags |-> Append(st.tags,
                        Finalize(lines, st.stack[Len(st.stack)], idx + 1))]
  ELSE st

\* one iteration of the for loop over originalLines
ProcessLine(lines, idx, st) ==
  LET line == lines[idx + 1]
      codePart == CodePart(line)
  IN IF IsCommentLine(line) THEN st
     ELSE IF codePart = <<>> THEN st
     ELSE CloseOnEnd(lines, codePart, idx,
                     [stack |-> PushOpener(codePart, idx, st.stack), tags |-> st.tags])

\* a while loop that drops the record it pops
ForceCloseDropped(lines, st) ==
  [stack |-> SubSeq(st.stack, 1, Len(st.stack) - 1), tags |-> st.tags]

\* a while loop that takes the records from the bottom of the stack
ForceCloseOutermost(lines, st) ==
  [stack |-> Tail(st.stack),
   tags |-> Append(st.tags, Finalize(lines, st.stack[1], Len(lines)))]

\* one iteration of the while loop that closes what is still open
ForceClose(lines, st) ==
  [stack |-> SubSeq(st.stack, 1, Len(st.stack) - 1),
   tags |-> Append(st.tags,
                   Finalize(lines, st.stack[Len(st.stack)], Len(lines)))]

RECURSIVE ForLoop(_, _, _)
ForLoop(lines, idx, st) ==
  IF idx >= Len(lines) THEN st
  ELSE ForLoop(lines, idx + 1, ProcessLine(lines, idx, st))

RECURSIVE WhileLoop(_, _)
WhileLoop(lines, st) ==
  IF Len(st.stack) = 0 THEN st
  ELSE WhileLoop(lines, ForceClose(lines, st))

\* the tags extractTags returns for a readable file of a supported extension
FortranTags(text) ==
  LET lines == SplitLines(text)
  IN WhileLoop(lines,
               ForLoop(lines, 0, [stack |-> <<>>, tags |-> <<>>])).tags

(***************************************************************************)
(* Paths.  A path is a sequence of segments; an absolute path starts with  *)
(* the segments of rootDir.  A segment is an atomic string and SegChars    *)
(* spells it out for the functions that look inside it.                    *)
(***************************************************************************)
rootDir == <<"proj">>

SegChars(seg) ==
  CASE seg = "a.ts" -> <<"a", ".", "t", "s">>
    [] seg = "m.F90" -> <<"m", ".", "F", "9", "0">>
    [] seg = "notes.md" -> <<"n", "o", "t", "e", "s", ".", "m", "d">>
    [] seg = "gone.ts" -> <<"g", "o", "n", "e", ".", "t", "s">>
    [] seg = "sub" -> <<"s", "u", "b">>
    [] seg = "proj" -> <<"p", "r", "o", "j">>
    [] seg = ".." -> <<".", ".">>
    [] OTHER -> <<>>

\* the index of the last "." of s, 0 when there is none
RECURSIVE LastDot(_)
LastDot(s) ==
  IF s = <<>> THEN 0
  ELSE IF s[Len(s)] = "." THEN Len(s)
  ELSE LastDot(SubSeq(s, 1, Len(s) - 1))

\* path.extname of a path's last segment: from its last "." to the end, and
\* empty when there is no "." or the only one starts the name
ExtName(p) ==
  LET s == IF p = <<>> THEN <<>> ELSE SegChars(p[Len(p)])
      d == LastDot(s)
  IN IF d <= 1 \/ s = <<".", ".">> THEN <<>> ELSE SubSeq(s, d, Len(s))

\* path.normalize: ".." removes the segment before it
RECURSIVE Normalize(_, _)
Normalize(done, rest) ==
  IF rest = <<>> THEN done
  ELSE IF Head(rest) = "." THEN Normalize(done, Tail(rest))
  ELSE IF Head(rest) = ".."
       THEN Normalize(IF done = <<>> THEN done ELSE SubSeq(done, 1, Len(done) - 1),
                      Tail(rest))
  ELSE Normalize(Append(done, Head(rest)), Tail(rest))

\* path.resolve(rootDir, rawPath) for a relative rawPath
Resolve(rawPath) == Normalize(<<>>, rootDir \o rawPath)

\* path.join(dir, name)
Join(dir, name) == Normalize(<<>>, Append(dir, name))

\* path.relative(rootDir, fullPath) for a path under rootDir
Relative(fullPath) == Drop(fullPath, Len(rootDir))

(***************************************************************************)
(* The file tree.  tree maps each path of NodePaths to a node              *)
(* [type, content]; type "none" is a path that does not exist.  A content  *)
(* is a name; Text spells out its characters and Ast is what the parser    *)
(* makes of it.                                                            *)
(***************************************************************************)
PathA == <<"proj", "a.ts">>
PathSub == <<"proj", "sub">>
PathM == <<"proj", "sub", "m.F90">>
PathNotes == <<"proj", "notes.md">>
PathGone == <<"proj", "gone.ts">>

NodePaths == {PathA, PathSub, PathM, PathNotes}

Text(content) ==
  CASE content = "tsFun" ->
         <<"f","u","n","c","t","i","o","n"," ","f","o","o","(",")","{","}","\n">>
    [] content = "tsDup" ->
         <<"l","e","t"," ","x",";","l","e","t"," ","x",";">>
    [] content = "fProg" ->
         <<"p","r","o","g","r","a","m"," ","p","\n",
           "e","n","d"," ","p","r","o","g","r","a","m"," ","p">>
    [] content = "fMod" ->
         <<"M","o","d","u","l","e"," ","M","\n",
           "s","u","b","r","o","u","t","i","n","e"," ","s","\n",
           "e","n","d","\n">>
    [] OTHER -> <<>>

Contents == {"blank", "tsFun", "tsDup", "fProg", "fMod"}

NoNode == [type |-> "none", content |-> "blank"]
FileNode(content) == [type |-> "file", content |-> content]
DirNode == [type |-> "dir", content |-> "blank"]

NodeAt(t, p) == IF p \in DOMAIN t THEN t[p] ELSE NoNode

\* fs.existsSync(p)
Exists(t, p) == p = rootDir \/ NodeAt(t, p).type # "none"

\* fs.statSync(p).isFile()
IsFile(t, p) == NodeAt(t, p).type = "file"

(***************************************************************************)
(* TypeScriptScanner.  The parser is outside the repository: Ast gives,    *)
(* for each content, whether parse throws, whether traverse throws, and    *)
(* the nodes the traversal visits, in visiting order.                      *)
(***************************************************************************)
NoLoc == [start |-> 0, end |-> 0]
Loc(a, b) == [start |-> a, end |-> b]

AstNode(type, id, loc, declarations) ==
  [type |-> type, id |-> id, loc |-> loc, declarations |-> declarations]

Declarator(idType, name, init, initLoc, loc) ==
  [idType |-> idType, name |-> name, init |-> init, initLoc |-> initLoc, loc |-> loc]

Ast(content) ==
  CASE content = "tsFun" ->
         [parseThrows |-> FALSE, traverseThrows |-> FALSE,
          nodes |-> << AstNode("FunctionDeclaration", <<"f", "o", "o">>, Loc(1, 1), <<>>) >>]
    [] content = "tsDup" ->
         [parseThrows |-> FALSE, traverseThrows |-> TRUE,
          nodes |-> << AstNode("VariableDeclaration", <<>>, Loc(1, 1),
                         << Declarator("Identifier", <<"x">>, "none", NoLoc, Loc(1, 1)) >>),
                       AstNode("VariableDeclaration", <<>>, Loc(1, 1),
                         << Declarator("Identifier", <<"x">>, "none", NoLoc, Loc(1, 1)) >>) >>]
    [] OTHER -> [parseThrows |-> FALSE, traverseThrows |-> FALSE, nodes |-> <<>>]

\* getSnippet(loc)
getSnippet(sourceCode, loc) ==
  IF loc = NoLoc THEN <<>>
  ELSE Trim(JoinLines(SubSeq(SplitLines(sourceCode), loc.start, loc.end)))

Tag(kind, name, loc, sourceCode) ==
  [kind |-> kind, name |-> name, startLine |-> loc.start, endLine |-> loc.end,
   code |-> getSnippet(sourceCode, loc)]

\* a visitor that gives a function the lines of its declarator
DeclaratorTagsDeclLoc(decl, sourceCode) ==
  IF decl.idType = "Identifier" /\ decl.init # "none" /\ decl.loc # NoLoc
  THEN << Tag(IF decl.init = "other" THEN "variable" ELSE "function",
              decl.name, decl.loc, sourceCode) >>
  ELSE <<>>

\* the tags one declarator of a VariableDeclaration adds
DeclaratorTags(decl, sourceCode) ==
  IF decl.idType = "Identifier" /\ decl.init \in {"arrow", "function"}
     /\ decl.initLoc # NoLoc
  THEN << Tag("function", decl.name, decl.initLoc, sourceCode) >>
  ELSE IF decl.idType = "Identifier" /\ decl.init = "other" /\ decl.loc # NoLoc
  THEN << Tag("variable", decl.name, decl.loc, sourceCode) >>
  ELSE <<>>

RECURSIVE DeclarationsTags(_, _)
DeclarationsTags(decls, sourceCode) ==
  IF decls = <<>> THEN <<>>
  ELSE DeclaratorTags(Head(decls), sourceCode) \o DeclarationsTags(Tail(decls), sourceCode)

\* the visitor that runs on one node
VisitNode(node, sourceCode) ==
  CASE node.type = "FunctionDeclaration" ->
         IF node.id = <<>> \/ node.loc = NoLoc THEN <<>>
         ELSE << Tag("function", node.id, node.loc, sourceCode) >>
    [] node.type = "VariableDeclaration" ->
         IF node.loc = NoLoc THEN <<>>
         ELSE DeclarationsTags(node.declarations, sourceCode)
    [] node.type = "ClassDeclaration" ->
         IF node.id = <<>> \/ node.loc = NoLoc THEN <<>>
         ELSE << Tag("class", node.id, node.loc, sourceCode) >>
    [] node.type = "TSTypeAliasDeclaration" ->
         IF node.id = <<>> \/ node.loc = NoLoc THEN <<>>
         ELSE << Tag("type", node.id, node.loc, sourceCode) >>
    [] node.type = "TSInterfaceDeclaration" ->
         IF node.id = <<>> \/ node.loc = NoLoc THEN <<>>
         ELSE << Tag("interface", node.id, node.loc, sourceCode) >>
    [] OTHER -> <<>>

RECURSIVE Traverse(_, _)
Traverse(nodes, sourceCode) ==
  IF nodes = <<>> THEN <<>>
  ELSE VisitNode(Head(nodes), sourceCode) \o Traverse(Tail(nodes), sourceCode)

(***************************************************************************)
(* The scanners and the registry.  A scanner is the name of its class.     *)
(* The outcome of extractTags is [threw, tags].                            *)
(***************************************************************************)
Returned(found) == [threw |-> FALSE, tags |-> found]
Threw == [threw |-> TRUE, tags |-> <<>>]

TypeScriptExtensions ==
  << <<".", "t", "s">>, <<".", "t", "s", "x">>, <<".", "j", "s">>, <<".", "j", "s", "x">> >>

FortranExtensions ==
       << <<".", "f">>, <<".", "f", "o", "r">>, <<".", "f", "9", "0">>,
          <<".", "f", "9", "5">>, <<".", "f", "0", "3">>, <<".", "f", "0", "8">>,
          <<".", "f", "p", "p">>,
          <<".", "F">>, <<".", "F", "O", "R">>, <<".", "F", "9", "0">>,
          <<".", "F", "9", "5">>, <<".", "F", "0", "3">>, <<".", "F", "0", "8">>,
          <<".", "F", "P", "P">> >>

supportedExtensions(scanner) ==
  IF scanner = "TypeScriptScanner" THEN TypeScriptExtensions ELSE FortranExtensions

\* what the traversal collects from each content, computed once
TraverseOf == [c \in Contents |-> Traverse(Ast(c).nodes, Text(c))]

\* TypeScriptScanner.extractTags
TypeScriptExtractTags(t, filePath) ==
  IF ToLowerCase(ExtName(filePath)) \notin Range(supportedExtensions("TypeScriptScanner"))
  THEN Returned(<<>>)
  ELSE IF ~IsFile(t, filePath) THEN Returned(<<>>)
  ELSE LET ast == Ast(t[filePath].content)
       IN IF ast.parseThrows THEN Returned(<<>>)
          ELSE IF ast.traverseThrows THEN Threw
          ELSE Returned(TraverseOf[t[filePath].content])

\* what the two loops collect from each content, computed once
FortranTagsOf == [c \in Contents |-> FortranTags(Text(c))]

\* FortranScanner.extractTags
FortranExtractTags(t, filePath) ==
  IF ToLowerCase(ExtName(filePath)) \notin Range(supportedExtensions("FortranScanner"))
  THEN Returned(<<>>)
  ELSE IF ~IsFile(t, filePath) THEN Returned(<<>>)
  ELSE Returned(FortranTagsOf[t[filePath].content])

extractTags(scanner, t, filePath) ==
  IF scanner = "TypeScriptScanner" THEN TypeScriptExtractTags(t, filePath)
  ELSE FortranExtractTags(t, filePath)

\* ALL_SCANNERS, in registration order
ALL_SCANNERS ==
  << [lang |-> "typescript", scanner |-> "TypeScriptScanner"],
     [lang |-> "fortran", scanner |-> "FortranScanner"] >>

\* the language identifiers a request can hold, and how each is spelled
LangSpelling ==
  [typescript |-> <<"t","y","p","e","s","c","r","i","p","t">>,
   fortran |-> <<"f","o","r","t","r","a","n">>,
   python |-> <<"p","y","t","h","o","n">>,
   Fortran |-> <<"F","o","r","t","r","a","n">>,
   constructor |-> <<"c","o","n","s","t","r","u","c","t","o","r">>]

Identifiers == DOMAIN LangSpelling

\* lang.toLowerCase()
ToLowerIdent(lang) ==
  CHOOSE id \in Identifiers : LangSpelling[id] = ToLowerCase(LangSpelling[lang])

\* ALL_SCANNERS is an object literal: a name it does not hold itself is looked
\* up in Object.prototype, where constructor is the function Object
ObjectPrototype == [constructor |-> "Object"]

\* ALL_SCANNERS[lang]: "none" stands for undefined
RECURSIVE Lookup(_, _)
Lookup(registry, lang) ==
  IF registry = <<>>
  THEN (IF lang \in DOMAIN ObjectPrototype THEN ObjectPrototype[lang] ELSE "none")
  ELSE IF Head(registry).lang = lang THEN Head(registry).scanner
  ELSE Lookup(Tail(registry), lang)

RECURSIVE Chosen(_)
Chosen(requestedLangs) ==
  IF requestedLangs = <<>> THEN <<>>
  ELSE LET scanner == Lookup(ALL_SCANNERS, ToLowerIdent(Head(requestedLangs)))
       IN (IF scanner = "none" THEN <<>> ELSE <<scanner>>) \o Chosen(Tail(requestedLangs))

\* getActiveScanners(requestedLangs); an absent request is the empty sequence
getActiveScanners(requestedLangs) ==
  IF requestedLangs = <<>>
  THEN [k \in DOMAIN ALL_SCANNERS |-> ALL_SCANNERS[k].scanner]
  ELSE Chosen(requestedLangs)

RECURSIVE Flatten(_)
Flatten(ss) == IF ss = <<>> THEN <<>> ELSE Head(ss) \o Flatten(Tail(ss))

\* collectExtensions(scanners): the lower-cased extensions, as a set
collectExtensions(scanners) ==
  { ToLowerCase(e) :
      e \in Range(Flatten([k \in DOMAIN scanners |-> supportedExtensions(scanners[k])])) }

ClassChars(scanner) ==
  IF scanner = "TypeScriptScanner"
  THEN <<"T","y","p","e","S","c","r","i","p","t","S","c","a","n","n","e","r">>
  ELSE <<"F","o","r","t","r","a","n","S","c","a","n","n","e","r">>

SuffixScanner == <<"S","c","a","n","n","e","r">>

\* getScannerName(scanner): name.replace(/Scanner$/, "").toLowerCase()
getScannerName(scanner) ==
  LET name == ClassChars(scanner)
      n == Len(name) - Len(SuffixScanner)
  IN ToLowerCase(IF n >= 0 /\ Drop(name, n) = SuffixScanner
                 THEN SubSeq(name, 1, n) ELSE name)

Unknown == <<"u","n","k","n","o","w","n">>

(***************************************************************************)
(* The ignore rules.  The matching library is outside the repository; a    *)
(* rule is kept in parsed form [neg, dirOnly, anchored, segs], where segs  *)
(* is a sequence of segment patterns: a literal name, "*" followed by a    *)
(* suffix, or "**".                                                        *)
(***************************************************************************)
Lit(name) == [g |-> "lit", name |-> name, suffix |-> <<>>]
StarSuffix(suffix) == [g |-> "star", name |-> "", suffix |-> suffix]
GlobStar == [g |-> "globstar", name |-> "", suffix |-> <<>>]

Rule(neg, dirOnly, anchored, segs) ==
  [neg |-> neg, dirOnly |-> dirOnly, anchored |-> anchored, segs |-> segs]

DirRule(name) == Rule(FALSE, TRUE, FALSE, <<Lit(name)>>)
AnySuffixRule(suffix) == Rule(FALSE, FALSE, TRUE, <<GlobStar, StarSuffix(suffix)>>)

\* extraIgnorePatterns of runFullScan
extraIgnorePatterns ==
  << DirRule("dist"), DirRule("build"), DirRule("node_modules"),
     DirRule("__snapshots__"), DirRule("__fixtures__"), DirRule(".github"),
     Rule(FALSE, FALSE, TRUE, <<GlobStar, Lit(".github"), GlobStar>>),
     AnySuffixRule(<<".", "s", "n", "a", "p">>),
     AnySuffixRule(<<".", "l", "o", "g">>),
     AnySuffixRule(<<".", "s", "h">>),
     AnySuffixRule(<<".", "m", "d">>),
     AnySuffixRule(<<".", "c", "s", "v">>),
     AnySuffixRule(<<".", "p", "n", "g">>),
     AnySuffixRule(<<".", "j", "p", "g">>),
     Rule(FALSE, TRUE, TRUE, <<Lit("examples"), GlobStar, Lit("runs")>>),
     Rule(FALSE, TRUE, TRUE, <<Lit("examples"), GlobStar, Lit("template")>>) >>

EndsWith(s, suffix) ==
  Len(s) >= Len(suffix) /\ Drop(s, Len(s) - Len(suffix)) = suffix

SegMatch(sp, seg) ==
  IF sp.g = "lit" THEN sp.name = seg ELSE EndsWith(SegChars(seg), sp.suffix)

\* whether the segment patterns match the whole path: "**" stands for any
\* number of leading or inner segments, and for at least one trailing one
RECURSIVE GlobMatch(_, _)
GlobMatch(segs, p) ==
  IF segs = <<>> THEN p = <<>>
  ELSE IF Head(segs).g = "globstar"
       THEN IF Len(segs) = 1 THEN p # <<>>
            ELSE \E k \in 0..Len(p) : GlobMatch(Tail(segs), Drop(p, k))
  ELSE p # <<>> /\ SegMatch(Head(segs), Head(p)) /\ GlobMatch(Tail(segs), Tail(p))

\* whether one rule matches a path given with (asDir) or without a trailing "/"
RuleMatches(rule, p, asDir) ==
  /\ rule.dirOnly => asDir
  /\ GlobMatch(IF rule.anchored THEN rule.segs ELSE <<GlobStar>> \o rule.segs, p)

\* a verdict in which a rule with "!" re-includes nothing
TestOneNoNegation(rules, p, asDir, ignored) ==
  \/ ignored
  \/ \E k \in DOMAIN rules : ~rules[k].neg /\ RuleMatches(rules[k], p, asDir)

\* the verdict of the rules on one path alone: the last matching rule decides
RECURSIVE TestOne(_, _, _, _)
TestOne(rules, p, asDir, ignored) ==
  IF rules = <<>> THEN ignored
  ELSE TestOne(Tail(rules), p, asDir,
               IF RuleMatches(Head(rules), p, asDir) THEN ~Head(rules).neg ELSE ignored)

\* ig.ignores(relPath): a path under an ignored directory is ignored, whatever
\* the rules say of the path itself; relPath carries no trailing "/"
Ignores(rules, relPath) ==
  \/ \E k \in 1..(Len(relPath) - 1) : TestOne(rules, SubSeq(relPath, 1, k), TRUE, FALSE)
  \/ TestOne(rules, relPath, FALSE, FALSE)

(***************************************************************************)
(* FileScannerCore.                                                        *)
(***************************************************************************)
\* the rules the constructor accumulates: the rule files' lines, then the
\* extra patterns
AllRules(lines) == lines \o extraIgnorePatterns

\* the lines a .gitignore under the root can hold
RuleFiles == { <<>>, << Rule(FALSE, FALSE, FALSE, <<Lit("a.ts")>>) >> }

\* the line "!" + the root-relative path of a file; a pattern with a "/"
\* inside it is anchored at the root
NegationOf(fullPath) ==
  Rule(TRUE, FALSE, Len(Relative(fullPath)) > 1,
       [k \in 1..Len(Relative(fullPath)) |-> Lit(Relative(fullPath)[k])])

\* rule files of a scan alone: none, "a.ts", "m.F90", "sub/", "sub", and "sub"
\* with "!sub/" after it
BaseRuleFiles ==
  { <<>>,
    << Rule(FALSE, FALSE, FALSE, <<Lit("a.ts")>>) >>,
    << Rule(FALSE, FALSE, FALSE, <<Lit("m.F90")>>) >>,
    << DirRule("sub") >>,
    << Rule(FALSE, FALSE, FALSE, <<Lit("sub")>>) >>,
    << Rule(FALSE, FALSE, FALSE, <<Lit("sub")>>),
       Rule(TRUE, TRUE, FALSE, <<Lit("sub")>>) >> }

\* the files a negation line is written for
NegatedPaths == { PathA, PathM, PathNotes }

\* the same, and each with the negation of a file's path as its last line
WalkRuleFiles ==
  BaseRuleFiles \cup
  { lines \o <<NegationOf(fullPath)>> : lines \in BaseRuleFiles, fullPath \in NegatedPaths }

\* this.ig.ignores(relPath) for each rule file and each path of the tree,
\* computed once
IgnoresOf ==
  [lines \in RuleFiles \cup WalkRuleFiles |->
     [fullPath \in NodePaths |-> Ignores(AllRules(lines), Relative(fullPath))]]

\* fs.promises.readdir(dir): the entries of dir, in the order ord lists them
RECURSIVE ReadDir(_, _, _)
ReadDir(t, dir, ord) ==
  IF ord = <<>> THEN <<>>
  ELSE (IF /\ Len(Head(ord)) = Len(dir) + 1
           /\ SubSeq(Head(ord), 1, Len(dir)) = dir
           /\ NodeAt(t, Head(ord)).type # "none"
        THEN <<Head(ord)>> ELSE <<>>) \o ReadDir(t, dir, Tail(ord))

\* the extension filter of walk
ExtensionAllowed(extensions, fullPath) ==
  extensions = {} \/ ToLowerCase(ExtName(fullPath)) \in extensions

\* fs.promises.readdir(dir) rejects: the directory may not be listed
ReadFails(t, dir) == NodeAt(t, dir).type = "dir" /\ NodeAt(t, dir).content = "denied"

\* walk(dir, out), as the paths it appends to out for the given entries
RECURSIVE WalkEntries(_, _, _, _, _)
WalkEntries(t, lines, extensions, entries, ord) ==
  IF entries = <<>> THEN <<>>
  ELSE LET fullPath == Head(entries)
           rest == WalkEntries(t, lines, extensions, Tail(entries), ord)
       IN IF IgnoresOf[lines][fullPath] THEN rest
          ELSE IF ReadFails(t, fullPath) THEN rest
          ELSE IF NodeAt(t, fullPath).type = "dir"
               THEN WalkEntries(t, lines, extensions, ReadDir(t, fullPath, ord), ord)
                    \o rest
          ELSE IF NodeAt(t, fullPath).type = "file"
               THEN (IF ExtensionAllowed(extensions, fullPath)
                     THEN <<fullPath>> ELSE <<>>) \o rest
          ELSE rest

\* FileScannerCore.scan()
scan(t, lines, extensions, ord) ==
  WalkEntries(t, lines, extensions, ReadDir(t, rootDir, ord), ord)

(***************************************************************************)
(* The persisted index.  indexFile is [state, entries]: the file is        *)
(* "missing", or holds an "array" of entries [filePath, language, tags].   *)
(***************************************************************************)
Entry(filePath, language, entryTags) ==
  [filePath |-> filePath, language |-> language, tags |-> entryTags]

MissingIndex == [state |-> "missing", entries |-> <<>>]
ArrayIndex(entries) == [state |-> "array", entries |-> entries]

\* loadExistingIndex(rootDir)
loadExistingIndex(file) == IF file.state = "array" THEN file.entries ELSE <<>>

\* an index file that JSON.parse rejects, and one that holds a value that is
\* not an array
UnparsableIndex == [state |-> "unparsable", entries |-> <<>>]
NotArrayIndex == [state |-> "notarray", entries |-> <<>>]

WarnFailedToParse == "Failed to read or parse"

\* the warnings of loadExistingIndex: the catch block alone warns
LoadWarnings(file) ==
  IF file.state = "unparsable" THEN <<WarnFailedToParse>> ELSE <<>>

\* writeIndex(rootDir, contexts)
writeIndex(contexts) == ArrayIndex(contexts)

MapSetAppended(map, ctx) == Append(map, ctx)

\* a set that moves a key already present to the end
MapSetMovedToEnd(map, ctx) ==
  LET Others(e) == e.filePath # ctx.filePath
  IN Append(SelectSeq(map, Others), ctx)

\* Map.prototype.set on a Map kept as the sequence of its values, in
\* insertion order: a key already present keeps its place
MapSet(map, ctx) ==
  IF \E k \in DOMAIN map : map[k].filePath = ctx.filePath
  THEN [k \in DOMAIN map |->
          IF map[k].filePath = ctx.filePath THEN ctx ELSE map[k]]
  ELSE Append(map, ctx)

\* a Map filled from the last of the loaded contexts to the first
RECURSIVE MapOfReversed(_, _)
MapOfReversed(map, existingContexts) ==
  IF existingContexts = <<>> THEN map
  ELSE MapOfReversed(MapSet(map, existingContexts[Len(existingContexts)]),
                     SubSeq(existingContexts, 1, Len(existingContexts) - 1))

\* new Map(existingContexts.map((ctx) => [ctx.filePath, ctx]))
RECURSIVE MapOf(_, _)
MapOf(map, existingContexts) ==
  IF existingContexts = <<>> THEN map
  ELSE MapOf(MapSet(map, Head(existingContexts)), Tail(existingContexts))

Call(filePath, k, scanner, outcome) ==
  [filePath |-> filePath, k |-> k, scanner |-> scanner, outcome |-> outcome]

(***************************************************************************)
(* runFullScan.  The result of the loops is [calls, contexts]: the calls   *)
(* of extractTags in the order they are made, and the entries pushed.      *)
(***************************************************************************)
NoCalls == [calls |-> <<>>, contexts |-> <<>>]

\* a call and what it pushed, before what the rest of the loop does
Prepend(call, pushed, rest) ==
  [calls |-> <<call>> \o rest.calls, contexts |-> pushed \o rest.contexts]

Concat(one, rest) ==
  [calls |-> one.calls \o rest.calls, contexts |-> one.contexts \o rest.contexts]

FullScanStartLoaded(file) == loadExistingIndex(file)

\* the contexts array before the first file
FullScanStart(file) == <<>>

RECURSIVE FullScanFile(_, _, _, _)
FullAfterClaimContinue(t, scannerList, k, filePath) ==
  FullScanFile(t, scannerList, k + 1, filePath)

\* what the scanner loop does after a scanner has claimed the file: break
FullAfterClaim(t, scannerList, k, filePath) == NoCalls

\* a scanner loop that an exception ends
FullAfterThrowBreak(t, scannerList, k, filePath) == NoCalls

\* the catch block of the scanner loop: a warning, and the loop goes on with
\* the next scanner
FullAfterThrow(t, scannerList, k, filePath) ==
  FullScanFile(t, scannerList, k + 1, filePath)

FullUnclaimedRecorded(filePath) == << Entry(filePath, Unknown, <<>>) >>

\* what is recorded for a file that no scanner claimed: nothing
FullUnclaimed(filePath) == <<>>

\* the body of the scanner loop, given what the k-th scanner's extractTags did
FullScanOutcome(t, scannerList, k, filePath, outcome) ==
  IF ~outcome.threw /\ Len(outcome.tags) > 0
  THEN Prepend(Call(filePath, k, scannerList[k], outcome),
               << Entry(filePath, getScannerName(scannerList[k]), outcome.tags) >>,
               FullAfterClaim(t, scannerList, k, filePath))
  ELSE IF outcome.threw
  THEN Prepend(Call(filePath, k, scannerList[k], outcome), <<>>,
               FullAfterThrow(t, scannerList, k, filePath))
  ELSE Prepend(Call(filePath, k, scannerList[k], outcome), <<>>,
               FullScanFile(t, scannerList, k + 1, filePath))

\* the scanner loop of one file, from the k-th scanner on
FullScanFile(t, scannerList, k, filePath) ==
  IF k > Len(scannerList) THEN NoCalls
  ELSE FullScanOutcome(t, scannerList, k, filePath,
                       extractTags(scannerList[k], t, filePath))

\* one iteration of the loop over allFiles, given what its scanner loop did
FullScanned(filePath, one) ==
  [calls |-> one.calls,
   contexts |-> IF one.contexts = <<>> THEN FullUnclaimed(filePath) ELSE one.contexts]

\* the loop over allFiles
RECURSIVE FullScanFiles(_, _, _)
FullScanFiles(t, scannerList, allFiles) ==
  IF allFiles = <<>> THEN NoCalls
  ELSE Concat(FullScanned(Head(allFiles),
                          FullScanFile(t, scannerList, 1, Head(allFiles))),
              FullScanFiles(t, scannerList, Tail(allFiles)))

\* the end of runFullScan: writeIndex(rootDir, contexts)
FullScanWritten(file, allFiles, loop) ==
  [allFiles |-> allFiles, calls |-> loop.calls,
   written |-> writeIndex(FullScanStart(file) \o loop.contexts)]

FullScanOf(t, file, scannerList, allFiles) ==
  FullScanWritten(file, allFiles, FullScanFiles(t, scannerList, allFiles))

\* runFullScan(rootDir, scannerList): [allFiles, calls, written]
runFullScan(t, lines, file, scannerList, ord) ==
  FullScanOf(t, file, scannerList,
             scan(t, lines, collectExtensions(scannerList), ord))

(***************************************************************************)
(* runIncrementalUpdate.  The state of the loop is [calls, contextMap].    *)
(***************************************************************************)
ClaimedEntryUnnamed(absPath, scanner, claimedTags) == Entry(absPath, Unknown, claimedTags)

\* an entry that names the scanner registered first, whichever claimed
ClaimedEntryFirstScanner(absPath, scanner, claimedTags) ==
  Entry(absPath, getScannerName(ALL_SCANNERS[1].scanner), claimedTags)

\* the entry set for a path that a scanner claimed
ClaimedEntry(absPath, scanner, claimedTags) ==
  Entry(absPath, getScannerName(scanner), claimedTags)

UpdateUnclaimedKept(map, absPath) == map

\* the Map after a path that no scanner claimed: an entry without tags
UpdateUnclaimed(map, absPath) == MapSet(map, Entry(absPath, Unknown, <<>>))

\* the body of the scanner loop, given what the k-th scanner's extractTags did
RECURSIVE UpdateScanners(_, _, _, _, _)
UpdateOutcome(t, scannerList, k, absPath, acc, outcome) ==
  IF ~outcome.threw /\ Len(outcome.tags) > 0
  THEN [calls |-> Append(acc.calls, Call(absPath, k, scannerList[k], outcome)),
        contextMap |-> MapSet(acc.contextMap,
                              ClaimedEntry(absPath, scannerList[k], outcome.tags))]
  ELSE UpdateScanners(t, scannerList, k + 1, absPath,
                      [calls |-> Append(acc.calls,
                                        Call(absPath, k, scannerList[k], outcome)),
                       contextMap |-> acc.contextMap])

\* the scanner loop of one path, from the k-th scanner on
UpdateScanners(t, scannerList, k, absPath, acc) ==
  IF k > Len(scannerList)
  THEN [calls |-> acc.calls, contextMap |-> UpdateUnclaimed(acc.contextMap, absPath)]
  ELSE UpdateOutcome(t, scannerList, k, absPath, acc,
                     extractTags(scannerList[k], t, absPath))

\* the two checks that let a requested path through
IsRegularFile(t, absPath) == Exists(t, absPath) /\ IsFile(t, absPath)
ExtensionSupported(allExts, absPath) == ToLowerCase(ExtName(absPath)) \in allExts

UpdateResolvedUnchecked(t, scannerList, allExts, absPath, acc) ==
  UpdateScanners(t, scannerList, 1, absPath, acc)

\* an iteration that passes over a path the ignore rules exclude
UpdateResolvedIgnoring(t, scannerList, allExts, absPath, acc) ==
  IF ~IsRegularFile(t, absPath) THEN acc
  ELSE IF ~ExtensionSupported(allExts, absPath) THEN acc
  ELSE IF IgnoresOf[ruleLines][absPath] THEN acc
  ELSE UpdateScanners(t, scannerList, 1, absPath, acc)

\* one iteration of the loop over updatePaths, given absPath
UpdateResolved(t, scannerList, allExts, absPath, acc) ==
  IF ~IsRegularFile(t, absPath) THEN acc
  ELSE IF ~ExtensionSupported(allExts, absPath) THEN acc
  ELSE UpdateScanners(t, scannerList, 1, absPath, acc)

\* one iteration of the loop over updatePaths
UpdatePath(t, scannerList, allExts, rawPath, acc) ==
  UpdateResolved(t, scannerList, allExts, Resolve(rawPath), acc)

UpdatedContextsRest(map) == SubSeq(map, 2, Len(map))

\* the values of the Map, as written
UpdatedContexts(map) == map

(***************************************************************************)
(* Specification Spec: runs of main on a tree that is edited between runs. *)
(* A full scan is one step.  An incremental update is a sequence of steps: *)
(* the start (load the index, build the Map), one step for each requested  *)
(* path, and the write.  hist records the run that is going on or was made *)
(* last.                                                                   *)
(***************************************************************************)
\* the requests --lang can make of getActiveScanners (<<>>: no --lang)
RequestedLangs == { <<>>, <<"fortran">>, <<"python">> }

\* the paths --update can name, relative to rootDir
RawPaths ==
  { <<"a.ts">>, <<"sub", "..", "a.ts">>, <<"sub", "m.F90">>, <<"sub">>, <<"notes.md">> }

\* the orders in which readdir may list the entries
Orders ==
  { <<PathA, PathSub, PathM, PathNotes>>, <<PathNotes, PathM, PathSub, PathA>> }

NodesOf(p) ==
  IF p = PathA THEN {NoNode, FileNode("tsFun"), FileNode("tsDup")}
  ELSE IF p = PathM THEN {NoNode, FileNode("fProg"), FileNode("blank")}
  ELSE IF p = PathSub THEN {DirNode}
  ELSE {FileNode("blank")}

Trees == { t \in [NodePaths -> UNION { NodesOf(p) : p \in NodePaths }] :
             \A p \in NodePaths : t[p] \in NodesOf(p) }

\* an index file that was not written by this program: it lists a path twice
ForeignIndex ==
  ArrayIndex(<< Entry(PathA, getScannerName("TypeScriptScanner"),
                      << [kind |-> "class", name |-> <<"K">>, startLine |-> 1,
                          endLine |-> 1, code |-> <<"c","l","a","s","s"," ","K","{","}">>] >>),
                Entry(PathM, Unknown, <<>>),
                Entry(PathA, Unknown, <<>>) >>)

NoRun ==
  [op |-> "none", scanners |-> <<>>, updatePaths |-> <<>>, prior |-> MissingIndex,
   allFiles |-> <<>>, calls |-> <<>>, afterFull |-> FALSE]

\* the record of a run that starts now: afterFull says that the run before
\* it was a full scan with the same scanners and the tree is as it left it
RunRecord(op, scanners, allFiles, calls) ==
  [op |-> op, scanners |-> scanners, updatePaths |-> <<>>, prior |-> indexFile,
   allFiles |-> allFiles, calls |-> calls,
   afterFull |-> hist.op = "full" /\ hist.scanners = scanners]

FIdle ==
  /\ source = <<>> /\ originalLines = <<>> /\ i = 0 /\ stack = <<>> /\ tags = <<>>
  /\ fpc = "idle"

\* the variables of WSpec, at rest
WIdle ==
  /\ opts = [extensions |-> {}, ord |-> <<>>]
  /\ pending = <<>> /\ dirsRead = <<>> /\ out = <<>> /\ wpc = "idle"

\* the variables of PSpec, at rest
PIdle == procs = <<>> /\ events = <<>>

\* the variables of DSpec, at rest
DIdle ==
  /\ statement = AstNode("VariableDeclaration", <<>>, NoLoc, <<>>)
  /\ dk = 0 /\ dtags = <<>> /\ dpc = "idle"

\* the variables of CSpec, at rest
CIdle ==
  /\ igFiles = <<>> /\ ig = [lines |-> <<>>, extra |-> FALSE] /\ ck = 0 /\ cpc = "idle"

\* the variables of RSpec, at rest
RIdle ==
  /\ request = [given |-> FALSE, langs |-> <<>>]
  /\ chosen = <<>> /\ rk = 0 /\ rpc = "idle" /\ warned = <<>>

Init ==
  /\ FIdle
  /\ WIdle
  /\ RIdle
  /\ CIdle
  /\ PIdle
  /\ DIdle
  /\ tree \in Trees
  /\ ruleLines \in RuleFiles
  /\ indexFile \in {MissingIndex, ForeignIndex}
  /\ hist = NoRun
  /\ pc = "idle"
  /\ contextMap = <<>>

\* the end of a full scan: the index is written
FullScanDone(scanners, run) ==
  /\ indexFile' = run.written
  /\ hist' = RunRecord("full", scanners, run.allFiles, run.calls)

FullScanWith(scanners, ord) ==
  /\ Len(scanners) > 0
  /\ FullScanDone(scanners, runFullScan(tree, ruleLines, indexFile, scanners, ord))

\* main() without --update: a full scan
MainFullScan(requestedLangs, ord) ==
  /\ pc = "idle"
  /\ FullScanWith(getActiveScanners(requestedLangs), ord)
  /\ UNCHANGED <<tree, ruleLines, pc, contextMap, fvars, wvars, rvars, cvars, dvars, pvars>>

UpdateStarted(scanners) ==
  /\ Len(scanners) > 0
  /\ hist' = RunRecord("updating", scanners, <<>>, <<>>)

\* main() with --update, up to the loop over updatePaths
MainUpdate(requestedLangs) ==
  /\ pc = "idle"
  /\ UpdateStarted(getActiveScanners(requestedLangs))
  /\ contextMap' = MapOf(<<>>, loadExistingIndex(indexFile))
  /\ warned' = LoadWarnings(indexFile)
  /\ pc' = "update"
  /\ UNCHANGED <<tree, ruleLines, indexFile, fvars, wvars, request, chosen, rk, rpc, cvars, dvars, pvars>>

UpdateStepped(rawPath, loop) ==
  /\ contextMap' = loop.contextMap
  /\ hist' = [hist EXCEPT !.updatePaths = Append(@, rawPath), !.calls = loop.calls]

\* one iteration of the loop over updatePaths
UpdateStep(rawPath) ==
  /\ pc = "update"
  /\ Len(hist.updatePaths) < MaxUpdate
  /\ UpdateStepped(rawPath,
                   UpdatePath(tree, hist.scanners, collectExtensions(hist.scanners),
                              rawPath, [calls |-> hist.calls, contextMap |-> contextMap]))
  /\ UNCHANGED <<tree, ruleLines, indexFile, pc, fvars, wvars, rvars, cvars, dvars, pvars>>

\* the end of runIncrementalUpdate: the values of the Map are written
UpdateWrite ==
  /\ pc = "update"
  /\ Len(hist.updatePaths) > 0
  /\ indexFile' = writeIndex(UpdatedContexts(contextMap))
  /\ hist' = [hist EXCEPT !.op = "update"]
  /\ pc' = "idle"
  /\ contextMap' = <<>>
  /\ UNCHANGED <<tree, ruleLines, fvars, wvars, rvars, cvars, dvars, pvars>>

\* a main() without the test of scanners.length, which goes on to a full scan
MainNoScannersScans(requestedLangs) ==
  /\ pc = "idle"
  /\ Len(getActiveScanners(requestedLangs)) = 0
  /\ indexFile' = runFullScan(tree, ruleLines, indexFile, <<>>, <<>>).written
  /\ hist' = RunRecord("exit", <<>>, <<>>, <<>>)
  /\ UNCHANGED <<tree, ruleLines, pc, contextMap, fvars, wvars, rvars, cvars, dvars, pvars>>

\* main() when no requested language is registered: process.exit(1)
MainNoScanners(requestedLangs) ==
  /\ pc = "idle"
  /\ Len(getActiveScanners(requestedLangs)) = 0
  /\ hist' = RunRecord("exit", <<>>, <<>>, <<>>)
  /\ UNCHANGED <<tree, ruleLines, indexFile, pc, contextMap, fvars, wvars, rvars, cvars, dvars, pvars>>

\* between two runs somebody creates, rewrites or deletes a file
EditTree(p, node) ==
  /\ pc = "idle"
  /\ p \in {PathA, PathM}
  /\ node \in NodesOf(p) \ {tree[p]}
  /\ tree' = [tree EXCEPT ![p] = node]
  /\ hist' = NoRun
  /\ UNCHANGED <<ruleLines, indexFile, pc, contextMap, fvars, wvars, rvars, cvars, dvars, pvars>>

Next ==
  \/ \E requestedLangs \in RequestedLangs, ord \in Orders :
       MainFullScan(requestedLangs, ord)
  \/ \E requestedLangs \in RequestedLangs : MainUpdate(requestedLangs)
  \/ \E rawPath \in RawPaths : UpdateStep(rawPath)
  \/ UpdateWrite
  \/ \E requestedLangs \in RequestedLangs : MainNoScanners(requestedLangs)
  \/ \E p \in NodePaths, node \in UNION { NodesOf(q) : q \in NodePaths } :
       EditTree(p, node)

Spec == Init /\ [][Next]_vars

(***************************************************************************)
(* Specification FSpec: one run of FortranScanner.extractTags, a step for  *)
(* each iteration of its two loops, on every text of up to MaxLines lines  *)
(* of FortranLines, with or without a line terminator at the end.          *)
(***************************************************************************)
LineProgram == <<"p","r","o","g","r","a","m"," ","p">>
LineEndDo == <<"e","n","d"," ","d","o">>
LineEndProgram == <<"e","n","d"," ","p","r","o","g","r","a","m"," ","p">>
LineEnd == <<"e","n","d">>
LineSubroutine ==
  <<" "," ","S","U","B","R","O","U","T","I","N","E"," ","S","u","b","1","(","x",")",
    " ","!"," ","e","n","d">>
LineComment == <<"C"," ","e","n","d">>

\* a declaration of a variable of a derived type: the keyword type with no
\* name after it
LineTypeDecl == <<"t","y","p","e","(","t",")"," ",":",":"," ","x">>

FortranLines ==
  {LineProgram, LineEndDo, LineEndProgram, LineEnd, LineSubroutine, LineComment}

\* the lines of the texts that hold declarations
DeclLines == {LineProgram, LineTypeDecl, LineEnd}

FortranTexts ==
  { JoinLines(ls) \o eol :
      ls \in UNION { [1..n -> FortranLines] \cup [1..n -> DeclLines] : n \in 0..MaxLines },
      eol \in {<<>>, <<"\n">>} }

\* the variables of Spec, at rest
OIdle ==
  /\ tree = [p \in NodePaths |-> IF p = PathSub THEN DirNode ELSE FileNode("blank")]
  /\ ruleLines = <<>>
  /\ indexFile = MissingIndex
  /\ hist = NoRun
  /\ pc = "idle"
  /\ contextMap = <<>>

FInit ==
  /\ OIdle
  /\ WIdle
  /\ RIdle
  /\ CIdle
  /\ PIdle
  /\ DIdle
  /\ source \in FortranTexts
  /\ originalLines = SplitLines(source)
  /\ i = 0
  /\ stack = <<>>
  /\ tags = <<>>
  /\ fpc = "for"

\* one iteration of the for loop
FLine ==
  LET st == ProcessLine(originalLines, i, [stack |-> stack, tags |-> tags])
  IN /\ fpc = "for"
     /\ i < Len(originalLines)
     /\ stack' = st.stack
     /\ tags' = st.tags
     /\ i' = i + 1
     /\ UNCHANGED <<source, originalLines, fpc, ovars, wvars, rvars, cvars, dvars, pvars>>

\* the for loop ends
FLinesDone ==
  /\ fpc = "for"
  /\ i >= Len(originalLines)
  /\ fpc' = "while"
  /\ UNCHANGED <<source, originalLines, i, stack, tags, ovars, wvars, rvars, cvars, dvars, pvars>>

\* one iteration of the while loop
FForceClose ==
  LET st == ForceClose(originalLines, [stack |-> stack, tags |-> tags])
  IN /\ fpc = "while"
     /\ Len(stack) > 0
     /\ stack' = st.stack
     /\ tags' = st.tags
     /\ UNCHANGED <<source, originalLines, i, fpc, ovars, wvars, rvars, cvars, dvars, pvars>>

\* return tags
FReturn ==
  /\ fpc = "while"
  /\ Len(stack) = 0
  /\ fpc' = "done"
  /\ UNCHANGED <<source, originalLines, i, stack, tags, ovars, wvars, rvars, cvars, dvars, pvars>>

FNext == FLine \/ FLinesDone \/ FForceClose \/ FReturn

FSpec == FInit /\ [][FNext]_vars

(***************************************************************************)
(* Specification WSpec: one run of FileScannerCore.scan, a step for each   *)
(* entry the walk visits, on every tree of WalkTrees under every rule file *)
(* of WalkRuleFiles, for every set of allowed extensions of                *)
(* WalkExtensions.  pending holds the entries the loops of walk have yet   *)
(* to visit, those of the innermost directory first.                       *)
(***************************************************************************)
\* an entry that is neither a regular file nor a directory: a symbolic link
LinkNode == [type |-> "link", content |-> "blank"]

\* a directory that the process may not list
DeniedDirNode == [type |-> "dir", content |-> "denied"]

WalkNodesOf(p) ==
  IF p = PathA THEN {NoNode, FileNode("blank"), LinkNode}
  ELSE IF p = PathM THEN {NoNode, FileNode("blank")}
  ELSE IF p = PathSub THEN {DirNode, LinkNode, DeniedDirNode}
  ELSE {FileNode("blank")}

WalkTrees == { t \in [NodePaths -> UNION { WalkNodesOf(p) : p \in NodePaths }] :
                 \A p \in NodePaths : t[p] \in WalkNodesOf(p) }

\* opts.extensions: none, or the extensions of the scanners of one language
\* or of all
WalkExtensions ==
  { {}, collectExtensions(<<"FortranScanner">>), collectExtensions(getActiveScanners(<<>>)) }

WInit ==
  /\ FIdle
  /\ RIdle
  /\ CIdle
  /\ PIdle
  /\ DIdle
  /\ tree \in WalkTrees
  /\ ruleLines \in WalkRuleFiles
  /\ indexFile = MissingIndex /\ hist = NoRun /\ pc = "idle" /\ contextMap = <<>>
  /\ opts \in [extensions : WalkExtensions, ord : Orders]
  /\ pending = ReadDir(tree, rootDir, opts.ord)
  /\ dirsRead = <<rootDir>>
  /\ out = <<>>
  /\ wpc = "walk"

\* what one iteration of the loop of walk does with an entry: the entries it
\* puts before the pending ones, the directory it reads, the path it pushes
\* the same, and the warning it prints.  walk(fullPath, out) warns and returns
\* when readdir rejects
NoWalk == [entries |-> <<>>, read |-> <<>>, push |-> <<>>, warn |-> <<>>]

\* a walk for which readdir never rejects
WalkEntryReadsDenied(t, lines, extensions, fullPath, ord) ==
  IF IgnoresOf[lines][fullPath] THEN NoWalk
  ELSE IF NodeAt(t, fullPath).type = "dir"
  THEN [NoWalk EXCEPT !.entries = ReadDir(t, fullPath, ord), !.read = <<fullPath>>]
  ELSE IF NodeAt(t, fullPath).type = "file" /\ ExtensionAllowed(extensions, fullPath)
  THEN [NoWalk EXCEPT !.push = <<fullPath>>]
  ELSE NoWalk

WalkEntry(t, lines, extensions, fullPath, ord) ==
  IF IgnoresOf[lines][fullPath] THEN NoWalk
  ELSE IF ReadFails(t, fullPath)
  THEN [NoWalk EXCEPT !.read = <<fullPath>>, !.warn = <<fullPath>>]
  ELSE IF NodeAt(t, fullPath).type = "dir"
  THEN [NoWalk EXCEPT !.entries = ReadDir(t, fullPath, ord), !.read = <<fullPath>>]
  ELSE IF NodeAt(t, fullPath).type = "file" /\ ExtensionAllowed(extensions, fullPath)
  THEN [NoWalk EXCEPT !.push = <<fullPath>>]
  ELSE NoWalk

WVisited(step) ==
  /\ pending' = step.entries \o Tail(pending)
  /\ dirsRead' = dirsRead \o step.read
  /\ out' = out \o step.push
  /\ warned' = warned \o step.warn

\* one iteration of the loop over the entries of a directory
WVisit ==
  /\ wpc = "walk"
  /\ pending # <<>>
  /\ WVisited(WalkEntry(tree, ruleLines, opts.extensions, Head(pending), opts.ord))
  /\ UNCHANGED <<opts, wpc, fvars, ovars, request, chosen, rk, rpc, cvars, dvars, pvars>>

\* scan returns result
WReturn ==
  /\ wpc = "walk"
  /\ pending = <<>>
  /\ wpc' = "done"
  /\ UNCHANGED <<opts, pending, dirsRead, out, fvars, ovars, rvars, cvars, dvars, pvars>>

WNext == WVisit \/ WReturn

WSpec == WInit /\ [][WNext]_vars

(***************************************************************************)
(* What the claims say of a line.                                          *)
(***************************************************************************)
\* the lines the for loop does not skip
IsCodeLine(line) == ~IsCommentLine(line) /\ CodePart(line) # <<>>

\* the record an opener line opens: a line with an opener record is a line
\* that matched an opener pattern
IsOpenerLine(line) == IsCodeLine(line) /\ FirstPattern(CodePart(line)) # 0

OpenerRecord(line, lineNo) ==
  [kind |-> patterns[FirstPattern(CodePart(line))].kind,
   name |-> OpenerName(patterns[FirstPattern(CodePart(line))].keyword, CodePart(line)),
   startLine |-> lineNo]

IsCloserLine(line) == IsCodeLine(line) /\ IsCloser(CodePart(line))

\* the kind suffix of a closer line: the word after "end", <<>> when none
CloserSuffix(line) ==
  LET rest == Drop(CodePart(line), Len(KwEnd))
      word == Drop(rest, LeadingSpaces(rest))
  IN SubSeq(word, 1, LeadingWord(word))

KeywordOf(kind) == patterns[CHOOSE k \in DOMAIN patterns : patterns[k].kind = kind].keyword

\* the for loop is at a closer line whose kind suffix is not the kind of the
\* record on top of the stack
AtMismatchedCloser ==
  /\ fpc = "for"
  /\ i < Len(originalLines)
  /\ IsCloserLine(originalLines[i + 1])
  /\ Len(stack) > 0
  /\ CloserSuffix(originalLines[i + 1]) # <<>>
  /\ CloserSuffix(originalLines[i + 1]) # KeywordOf(stack[Len(stack)].kind)

(***************************************************************************)
(* C1.  A closer line whose kind suffix differs from the kind of the       *)
(* record on top of the stack (`end do` while a program is on top) leaves  *)
(* the stack unchanged and emits nothing.                                  *)
(***************************************************************************)
C1_MismatchedCloserIgnored ==
  [][AtMismatchedCloser => (stack' = stack /\ tags' = tags)]_vars

\* what identifies the opener behind a stack record or a Construct
OpenKey(rec) == [kind |-> rec.kind, name |-> rec.name, startLine |-> rec.startLine]

(***************************************************************************)
(* C2.  Every line that matched an opener pattern yields exactly one       *)
(* Construct: at every moment the records on the stack and the Constructs  *)
(* emitted are, one for one, the opener lines met so far (so a closer met  *)
(* with an empty stack emitted nothing, and nothing is emitted that was    *)
(* not opened), and when extractTags returns the stack is empty.           *)
(***************************************************************************)
C2_OneConstructPerOpener ==
  fpc # "idle" =>
    LET met == { n \in 1..i : IsOpenerLine(originalLines[n]) }
        held == [k \in 1..(Len(stack) + Len(tags)) |->
                   IF k <= Len(stack) THEN OpenKey(stack[k])
                   ELSE OpenKey(tags[k - Len(stack)])]
    IN /\ Len(held) = Cardinality(met)
       /\ Range(held) = { OpenerRecord(originalLines[n], n) : n \in met }
       /\ fpc = "done" => (stack = <<>> /\ i = Len(originalLines))

\* extractTags has returned two Constructs, one closed by a closer line and
\* one closed at the end of the file, of a text whose first line is a closer
C2_Witness ==
  /\ fpc = "done"
  /\ Len(tags) = 2
  /\ IsCloserLine(originalLines[1])
  /\ IsCloserLine(originalLines[tags[1].endLine])
  /\ tags[1].endLine < tags[2].startLine
  /\ ~IsCloserLine(originalLines[tags[2].endLine])

(***************************************************************************)
(* The vocabulary of the properties of the orchestrator.                   *)
(***************************************************************************)
\* an outcome of extractTags that claims the file
Claims(outcome) == ~outcome.threw /\ Len(outcome.tags) > 0

CallsFor(calls, filePath) ==
  LET Here(c) == c.filePath = filePath IN SelectSeq(calls, Here)

EntriesFor(entries, filePath) ==
  LET Here(e) == e.filePath = filePath IN SelectSeq(entries, Here)

\* the entry a Map built from entries holds for filePath, if any
LastFor(entries, filePath) ==
  LET ns == { n \in DOMAIN entries : entries[n].filePath = filePath }
  IN IF ns = {} THEN <<>>
     ELSE << entries[CHOOSE n \in ns : \A m \in ns : m <= n] >>

\* the resolved paths of the update that is going on or was made last
RequestedPaths == { Resolve(hist.updatePaths[n]) : n \in DOMAIN hist.updatePaths }

\* a requested path that passes the two checks
Processed(filePath) ==
  /\ IsRegularFile(tree, filePath)
  /\ ExtensionSupported(collectExtensions(hist.scanners), filePath)

\* no scanner of the run claims the file as it is in the tree
Unclaimed(filePath) ==
  \A k \in DOMAIN hist.scanners : ~Claims(extractTags(hist.scanners[k], tree, filePath))

\* the scanners that claim the file first, in list order
FirstClaimers(filePath) ==
  { k \in DOMAIN hist.scanners :
      /\ Claims(extractTags(hist.scanners[k], tree, filePath))
      /\ \A j \in 1..(k - 1) : ~Claims(extractTags(hist.scanners[j], tree, filePath)) }

\* the entries that the tree and the scanners give for a set of files
Derived(files) ==
  UNION { { Entry(f, getScannerName(hist.scanners[k]),
                  extractTags(hist.scanners[k], tree, f).tags) :
              k \in FirstClaimers(f) } : f \in files }

\* the calls made for one file of a full scan, and the entries written for it
OfferedInOrder(filePath, cs, es) ==
  /\ Len(cs) >= 1
  /\ \A n \in DOMAIN cs :
       /\ cs[n].k = n
       /\ cs[n].scanner = hist.scanners[n]
       /\ cs[n].outcome = extractTags(cs[n].scanner, tree, filePath)
       /\ Claims(cs[n].outcome) => n = Len(cs)
  /\ IF Claims(cs[Len(cs)].outcome)
     THEN es = << Entry(filePath, getScannerName(cs[Len(cs)].scanner),
                        cs[Len(cs)].outcome.tags) >>
     ELSE Len(cs) = Len(hist.scanners)

(***************************************************************************)
(* C3.  In a full scan every walked file is offered to the active scanners *)
(* in list order; the first scanner whose extractTags returns a non-empty  *)
(* list gives the entry its language and its tags, and no later scanner is *)
(* called for that file.                                                   *)
(***************************************************************************)
C3_FirstClaimWins ==
  hist.op = "full" =>
    /\ \A n \in DOMAIN hist.calls : hist.calls[n].filePath \in Range(hist.allFiles)
    /\ \A f \in Range(hist.allFiles) :
         OfferedInOrder(f, CallsFor(hist.calls, f), EntriesFor(indexFile.entries, f))

\* a full scan with two scanners in which the first scanner claimed a file,
\* so that the second was not called for it, and the second claimed another
C3_Witness ==
  /\ hist.op = "full"
  /\ Len(hist.scanners) = 2
  /\ \E c \in Range(hist.calls) :
       /\ c.k = 1 /\ Claims(c.outcome)
       /\ Len(CallsFor(hist.calls, c.filePath)) = 1
  /\ \E c \in Range(hist.calls) : c.k = 2 /\ Claims(c.outcome)

(***************************************************************************)
(* C4.  After a full scan every entry of the index has a non-empty tags    *)
(* list, and a walked file that no active scanner claimed has no entry.    *)
(***************************************************************************)
C4_NoEntryWithoutTags ==
  hist.op = "full" =>
    /\ \A n \in DOMAIN indexFile.entries : Len(indexFile.entries[n].tags) > 0
    /\ \A f \in Range(hist.allFiles) :
         Unclaimed(f) => EntriesFor(indexFile.entries, f) = <<>>

\* a full scan that walked a file no scanner claimed, and wrote an entry
\* for another file
C4_Witness ==
  /\ hist.op = "full"
  /\ \E f \in Range(hist.allFiles) :
       /\ Unclaimed(f)
       /\ \A c \in Range(CallsFor(hist.calls, f)) : ~c.outcome.threw
  /\ indexFile.entries # <<>>

(***************************************************************************)
(* C5.  The index a full scan writes is given by the tree and the active   *)
(* scanners alone: its entries are the ones derived from the files walked, *)
(* whatever the order of the walk and whatever the index held before (so   *)
(* no prior entry, and no entry without tags left by an update, survives   *)
(* unless it is derived again), and a second full scan of the unchanged    *)
(* tree writes the same set of entries, each with the same tags in the     *)
(* same order.                                                             *)
(***************************************************************************)
C5_FullScanDetermined ==
  hist.op = "full" =>
    /\ \A ord \in Orders :
         Range(indexFile.entries) =
           Derived(Range(scan(tree, ruleLines, collectExtensions(hist.scanners), ord)))
    /\ hist.afterFull => Range(indexFile.entries) = Range(hist.prior.entries)

\* the second of two full scans of an unchanged tree, with two entries
C5_Witness ==
  /\ hist.op = "full"
  /\ hist.afterFull
  /\ Cardinality(Range(indexFile.entries)) = 2

(***************************************************************************)
(* C6.  After an incremental update, a requested path that is a regular    *)
(* file of a supported extension and that no active scanner claims has     *)
(* one entry in the index, with language "unknown" and no tags, whatever   *)
(* the index held for it before.                                           *)
(***************************************************************************)
C6_UnclaimedRecorded ==
  hist.op = "update" =>
    \A f \in RequestedPaths :
      (Processed(f) /\ Unclaimed(f)) =>
        EntriesFor(indexFile.entries, f) = << Entry(f, Unknown, <<>>) >>

\* an update of an unclaimed file for which the prior index held tags
C6_Witness ==
  /\ hist.op = "update"
  /\ \E f \in RequestedPaths :
       /\ Processed(f) /\ Unclaimed(f)
       /\ LastFor(hist.prior.entries, f) # <<>>
       /\ LastFor(hist.prior.entries, f)[1].tags # <<>>

(***************************************************************************)
(* C7.  In an incremental update a requested path that does not exist, is  *)
(* not a regular file or has an extension no active scanner supports is    *)
(* skipped: extractTags is called for it by no scanner, the index holds    *)
(* for it afterwards what the prior index held for it (the same entry, or  *)
(* none), and the requested paths that pass the checks are processed.      *)
(***************************************************************************)
C7_SkippedPathLeftAlone ==
  hist.op = "update" =>
    \A f \in RequestedPaths :
      IF Processed(f)
      THEN /\ CallsFor(hist.calls, f) # <<>>
           /\ Len(EntriesFor(indexFile.entries, f)) = 1
      ELSE /\ CallsFor(hist.calls, f) = <<>>
           /\ EntriesFor(indexFile.entries, f) = LastFor(hist.prior.entries, f)

\* an update whose first path is skipped and has an entry in the prior
\* index, and whose second path is processed
C7_Witness ==
  /\ hist.op = "update"
  /\ Len(hist.updatePaths) = 2
  /\ ~Processed(Resolve(hist.updatePaths[1]))
  /\ LastFor(hist.prior.entries, Resolve(hist.updatePaths[1])) # <<>>
  /\ Processed(Resolve(hist.updatePaths[2]))

(***************************************************************************)
(* C8.  After every full scan and every incremental update the index has   *)
(* at most one entry for a filePath, also when a path is requested twice   *)
(* in the update and when the prior index listed a filePath twice.         *)
(***************************************************************************)
C8_OneEntryPerPath ==
  hist.op \in {"full", "update"} =>
    \A m, n \in DOMAIN indexFile.entries :
      indexFile.entries[m].filePath = indexFile.entries[n].filePath => m = n

\* an update that names one file twice, in two ways, on an index that
\* listed that file twice
C8_Witness ==
  /\ hist.op = "update"
  /\ hist.prior = ForeignIndex
  /\ Len(hist.updatePaths) = 2
  /\ hist.updatePaths[1] # hist.updatePaths[2]
  /\ Resolve(hist.updatePaths[1]) = PathA
  /\ Resolve(hist.updatePaths[2]) = PathA
  /\ Processed(PathA)

(***************************************************************************)
(* C9.  An incremental update changes only the entries of the requested    *)
(* paths: the entry that the prior index holds last for a filePath that is *)
(* not the resolved path of a requested path is in the index written       *)
(* afterwards, unchanged.  (An earlier entry of a filePath that the prior  *)
(* index lists more than once is dropped.)                                 *)
(***************************************************************************)
C9_OthersUntouched ==
  hist.op = "update" =>
    \A e \in Range(hist.prior.entries) :
      (e.filePath \notin RequestedPaths /\ LastFor(hist.prior.entries, e.filePath) = <<e>>)
        => EntriesFor(indexFile.entries, e.filePath) = <<e>>

\* C9 as it is stated: every prior entry of a path that was not requested
\* is in the index written afterwards
C9_EveryPriorEntryKept ==
  hist.op = "update" =>
    \A e \in Range(hist.prior.entries) :
      e.filePath \notin RequestedPaths => e \in Range(indexFile.entries)

\* an update that changed the entry of the path it names and kept the
\* entry of a path it does not name
C9_Witness ==
  /\ hist.op = "update"
  /\ \E f \in RequestedPaths :
       EntriesFor(indexFile.entries, f) # LastFor(hist.prior.entries, f)
  /\ \E e \in Range(hist.prior.entries) :
       /\ e.filePath \notin RequestedPaths
       /\ e \in Range(indexFile.entries)

(***************************************************************************)
(* C10.  When an incremental update follows a full scan, with the same     *)
(* active scanners and the tree unchanged, the entry it writes for a       *)
(* requested file that the full scan indexed has the filePath, language    *)
(* and tags of the full scan's entry.                                      *)
(***************************************************************************)
C10_UpdateReproducesFullScan ==
  (hist.op = "update" /\ hist.afterFull) =>
    \A f \in RequestedPaths :
      \A e \in Range(hist.prior.entries) :
        e.filePath = f => EntriesFor(indexFile.entries, f) = <<e>>

\* an update, after a full scan, of a file the full scan indexed
C10_Witness ==
  /\ hist.op = "update"
  /\ hist.afterFull
  /\ \E f \in RequestedPaths : LastFor(hist.prior.entries, f) # <<>>

(***************************************************************************)
(* Specification USpec: incremental updates alone, over an index file that *)
(* is missing, does not parse, holds a value that is not an array, or      *)
(* holds an array.                                                         *)
(***************************************************************************)
UInit ==
  /\ FIdle
  /\ WIdle
  /\ RIdle
  /\ CIdle
  /\ PIdle
  /\ DIdle
  /\ tree \in Trees
  /\ ruleLines = <<>>
  /\ indexFile \in {MissingIndex, UnparsableIndex, NotArrayIndex, ForeignIndex}
  /\ hist = NoRun
  /\ pc = "idle"
  /\ contextMap = <<>>

UNext ==
  \/ \E requestedLangs \in RequestedLangs : MainUpdate(requestedLangs)
  \/ \E rawPath \in RawPaths : UpdateStep(rawPath)
  \/ UpdateWrite

USpec == UInit /\ [][UNext]_vars

(***************************************************************************)
(* Specification CSpec: one run of the constructor of FileScannerCore over *)
(* the two rule files .gitignore and .ignore, each of which is missing, a  *)
(* directory, a file that cannot be read, or a file with a text.           *)
(***************************************************************************)
RuleTextPlain == <<"a",".","t","s","\n">>
RuleTextNoted ==
  <<" ","s","u","b","/"," ","\n","#"," ","n","o","t","e","\n","\n","!","a",".","t","s">>

IgFile(state, text) == [state |-> state, text |-> text]

IgFileStates ==
  { IgFile("missing", <<>>), IgFile("dir", <<>>), IgFile("unreadable", <<>>),
    IgFile("file", <<>>), IgFile("file", RuleTextPlain), IgFile("file", RuleTextNoted) }

\* content.split(/\r?\n/).map((l) => l.trim()).filter((l) => l && !l.startsWith("#"))
PatternLine(l) == l # <<>> /\ Head(l) # "#"

RuleFileLines(content) ==
  LET pieces == SplitLines(content)
  IN SelectSeq([k \in DOMAIN pieces |-> Trim(pieces[k])], PatternLine)

CInit ==
  /\ FIdle
  /\ OIdle
  /\ WIdle
  /\ RIdle
  /\ DIdle
  /\ PIdle
  /\ igFiles \in [1..2 -> IgFileStates]
  /\ ig = [lines |-> <<>>, extra |-> FALSE]
  /\ ck = 1
  /\ cpc = "files"

\* one iteration of the loop over ignoreFiles: a file that exists and is a
\* regular file is read, and fs.readFileSync throws when it cannot be read
CRuleFile ==
  /\ cpc = "files"
  /\ ck <= Len(igFiles)
  /\ IF igFiles[ck].state \in {"missing", "dir"}
     THEN ig' = ig /\ ck' = ck + 1 /\ cpc' = cpc
     ELSE IF igFiles[ck].state = "unreadable"
     THEN ig' = ig /\ ck' = ck /\ cpc' = "threw"
     ELSE /\ ig' = [ig EXCEPT !.lines = @ \o RuleFileLines(igFiles[ck].text)]
          /\ ck' = ck + 1
          /\ cpc' = cpc
  /\ UNCHANGED <<igFiles, fvars, ovars, wvars, rvars, dvars, pvars>>

\* this.ig.add(opts.extraIgnorePatterns), and the constructor returns
CExtra ==
  /\ cpc = "files"
  /\ ck > Len(igFiles)
  /\ ig' = [ig EXCEPT !.extra = Len(extraIgnorePatterns) > 0]
  /\ cpc' = "done"
  /\ UNCHANGED <<igFiles, ck, fvars, ovars, wvars, rvars, dvars, pvars>>

CNext == CRuleFile \/ CExtra

CSpec == CInit /\ [][CNext]_vars

(***************************************************************************)
(* Specification DSpec: the VariableDeclaration visitor of                 *)
(* TypeScriptScanner on one statement of up to MaxDecls declarators, a     *)
(* step for each declarator.  The statement takes two lines: a declarator  *)
(* spans both and its initializer the second.                              *)
(***************************************************************************)
DeclSource ==
  <<"c","o","n","s","t"," ","x"," ","=","\n"," "," ","i","n","i","t",";">>

\* the declarators the parser can hand over: the binding is an identifier or
\* a destructuring pattern, and the initializer is absent, an arrow function,
\* a function expression, or any other expression
Declarators ==
  { Declarator(idType, IF idType = "Identifier" THEN <<"x">> ELSE <<>>, init,
               IF init = "none" THEN NoLoc ELSE Loc(2, 2), Loc(1, 2)) :
      idType \in {"Identifier", "ObjectPattern", "ArrayPattern"},
      init \in {"none", "arrow", "function", "other"} }

Statements ==
  { AstNode("VariableDeclaration", <<>>, Loc(1, 2), decls) :
      decls \in UNION { [1..n -> Declarators] : n \in 0..MaxDecls } }

DInit ==
  /\ FIdle
  /\ OIdle
  /\ WIdle
  /\ RIdle
  /\ CIdle
  /\ PIdle
  /\ statement \in Statements
  /\ dk = 1
  /\ dtags = <<>>
  /\ dpc = "loop"

\* one iteration of the loop over node.declarations
DDeclarator ==
  /\ dpc = "loop"
  /\ dk <= Len(statement.declarations)
  /\ dtags' = dtags \o DeclaratorTags(statement.declarations[dk], DeclSource)
  /\ dk' = dk + 1
  /\ UNCHANGED <<statement, dpc, fvars, ovars, wvars, rvars, cvars, pvars>>

\* the visitor returns
DReturn ==
  /\ dpc = "loop"
  /\ dk > Len(statement.declarations)
  /\ dpc' = "done"
  /\ UNCHANGED <<statement, dk, dtags, fvars, ovars, wvars, rvars, cvars, pvars>>

DNext == DDeclarator \/ DReturn

DSpec == DInit /\ [][DNext]_vars

(***************************************************************************)
(* Specification PSpec: two invocations of runIncrementalUpdate on the     *)
(* same root that overlap.  Each loads the index, handles its updatePaths  *)
(* one at a time and writes the index; the steps of the two interleave.    *)
(***************************************************************************)
Procs == {1, 2}

\* an invocation that has not yet loaded the index
ProcStart(updatePaths) ==
  [pc |-> "start", updatePaths |-> updatePaths, k |-> 1,
   existingContexts |-> <<>>, contextMap |-> <<>>]

\* the updatePaths of an invocation: one path, or a.ts and sub/m.F90 in
\* either order
UpdateRequests ==
  { <<rawPath>> : rawPath \in RawPaths }
    \cup { << <<"a.ts">>, <<"sub", "m.F90">> >>, << <<"sub", "m.F90">>, <<"a.ts">> >> }

PInit ==
  /\ FIdle
  /\ WIdle
  /\ RIdle
  /\ CIdle
  /\ DIdle
  /\ tree \in Trees
  /\ ruleLines = <<>>
  /\ indexFile \in {MissingIndex, ForeignIndex}
  /\ hist = NoRun
  /\ pc = "idle"
  /\ contextMap = <<>>
  /\ procs \in [Procs -> { ProcStart(updatePaths) : updatePaths \in UpdateRequests }]
  /\ events = <<>>

\* loadExistingIndex and the construction of the Map
PLoad(p) ==
  /\ procs[p].pc = "start"
  /\ procs' = [procs EXCEPT ![p].pc = "loaded",
                            ![p].existingContexts = loadExistingIndex(indexFile),
                            ![p].contextMap = MapOf(<<>>, loadExistingIndex(indexFile))]
  /\ events' = Append(events, <<"load", p>>)
  /\ UNCHANGED <<fvars, ovars, wvars, rvars, cvars, dvars>>

\* one iteration of the loop over updatePaths
PPath(p) ==
  /\ procs[p].pc = "loaded"
  /\ procs[p].k <= Len(procs[p].updatePaths)
  /\ procs' = [procs EXCEPT
                 ![p].k = @ + 1,
                 ![p].contextMap =
                    UpdatePath(tree, getActiveScanners(<<>>),
                               collectExtensions(getActiveScanners(<<>>)),
                               procs[p].updatePaths[procs[p].k],
                               [calls |-> <<>>, contextMap |-> @]).contextMap]
  /\ UNCHANGED <<events, fvars, ovars, wvars, rvars, cvars, dvars>>

\* a write that first loads the index again and sets its own entries in it
PWriteReloaded(p) ==
  /\ procs[p].pc = "loaded"
  /\ procs[p].k > Len(procs[p].updatePaths)
  /\ indexFile' = writeIndex(MapOf(MapOf(<<>>, loadExistingIndex(indexFile)),
                                   procs[p].contextMap))
  /\ procs' = [procs EXCEPT ![p].pc = "done"]
  /\ events' = Append(events, <<"write", p>>)
  /\ UNCHANGED <<tree, ruleLines, hist, pc, contextMap, fvars, wvars, rvars, cvars, dvars>>

\* writeIndex of the values of the Map
PWrite(p) ==
  /\ procs[p].pc = "loaded"
  /\ procs[p].k > Len(procs[p].updatePaths)
  /\ indexFile' = writeIndex(UpdatedContexts(procs[p].contextMap))
  /\ procs' = [procs EXCEPT ![p].pc = "done"]
  /\ events' = Append(events, <<"write", p>>)
  /\ UNCHANGED <<tree, ruleLines, hist, pc, contextMap, fvars, wvars, rvars, cvars, dvars>>

PNext == \E p \in Procs : PLoad(p) \/ PPath(p) \/ PWrite(p)

PSpec == PInit /\ [][PNext]_vars

(***************************************************************************)
(* Specification RSpec: one call of getActiveScanners, a step for each     *)
(* iteration of its loop, on null and on every list of up to MaxLangs      *)
(* identifiers.                                                            *)
(***************************************************************************)
Requests ==
  { [given |-> FALSE, langs |-> <<>>] } \cup
  { [given |-> TRUE, langs |-> ls] :
      ls \in UNION { [1..n -> Identifiers] : n \in 0..MaxLangs } }

RInit ==
  /\ FIdle
  /\ OIdle
  /\ WIdle
  /\ CIdle
  /\ PIdle
  /\ DIdle
  /\ request \in Requests
  /\ chosen = <<>>
  /\ rk = 1
  /\ rpc = "call"
  /\ warned = <<>>

\* !requestedLangs || requestedLangs.length === 0: Object.values(ALL_SCANNERS)
RAll ==
  /\ rpc = "call"
  /\ ~request.given \/ request.langs = <<>>
  /\ chosen' = [k \in DOMAIN ALL_SCANNERS |-> ALL_SCANNERS[k].scanner]
  /\ rpc' = "done"
  /\ UNCHANGED <<request, rk, warned, fvars, ovars, wvars, cvars, dvars, pvars>>

\* one iteration of the loop over requestedLangs
RLang ==
  LET lang == request.langs[rk]
      scanner == Lookup(ALL_SCANNERS, ToLowerIdent(lang))
  IN /\ rpc = "call"
     /\ request.given /\ request.langs # <<>>
     /\ rk <= Len(request.langs)
     /\ IF scanner # "none"
        THEN chosen' = Append(chosen, scanner) /\ warned' = warned
        ELSE chosen' = chosen /\ warned' = Append(warned, lang)
     /\ rk' = rk + 1
     /\ UNCHANGED <<request, rpc, fvars, ovars, wvars, cvars, dvars, pvars>>

\* return chosen
RReturn ==
  /\ rpc = "call"
  /\ request.given /\ request.langs # <<>>
  /\ rk > Len(request.langs)
  /\ rpc' = "done"
  /\ UNCHANGED <<request, chosen, rk, warned, fvars, ovars, wvars, cvars, dvars, pvars>>

RNext == RAll \/ RLang \/ RReturn

RSpec == RInit /\ [][RNext]_vars

(***************************************************************************)
(* The vocabulary of the properties of the walker.                         *)
(***************************************************************************)
\* the rules of the scan
WalkRules == AllRules(ruleLines)

\* the rules ignore a directory, given as a directory (with its "/")
DirectoryMatched(rules, dir) ==
  \E k \in 1..Len(Relative(dir)) : TestOne(rules, SubSeq(Relative(dir), 1, k), TRUE, FALSE)

\* the paths of the tree that lie under dir
Under(dir) ==
  { p \in NodePaths : Len(p) > Len(dir) /\ SubSeq(p, 1, Len(dir)) = dir }

(***************************************************************************)
(* C11.  scan returns no path that the accumulated ignore rules match,     *)
(* whatever its extension, and no path under a directory that the rules    *)
(* match; and walk does not descend into such a directory: it is not read. *)
(***************************************************************************)
C11_IgnoredPruned ==
  /\ \A n \in DOMAIN out : ~Ignores(WalkRules, Relative(out[n]))
  /\ \A d \in NodePaths :
       NodeAt(tree, d).type = "dir" /\ DirectoryMatched(WalkRules, d) =>
         /\ \A n \in DOMAIN out : out[n] \notin Under(d)
         /\ \A n \in DOMAIN dirsRead : dirsRead[n] # d

\* the part of C11 that is about the result of scan alone
IgnoredNotReturned ==
  /\ \A n \in DOMAIN out : ~Ignores(WalkRules, Relative(out[n]))
  /\ \A d \in NodePaths :
       NodeAt(tree, d).type = "dir" /\ DirectoryMatched(WalkRules, d) =>
         \A n \in DOMAIN out : out[n] \notin Under(d)

\* the steps of the walk and the function scan agree
WalkIsScan ==
  wpc = "done" => out = scan(tree, ruleLines, opts.extensions, opts.ord)

(***************************************************************************)
(* C12.  A regular file with an allowed extension that the rules R exclude *)
(* is returned by scan once the line "!" + its root-relative path is added *)
(* to R, also when R excludes it through an ancestor directory.            *)
(***************************************************************************)
\* the walk reaches the file when no rule excludes anything: it lies in
\* directories that can be read
Walkable(t, f) ==
  /\ NodeAt(t, f).type = "file"
  /\ \A k \in (Len(rootDir) + 1)..(Len(f) - 1) :
       NodeAt(t, SubSeq(f, 1, k)).type = "dir" /\ ~ReadFails(t, SubSeq(f, 1, k))

\* the scan runs with the rule file R and the negation of f added to it
NegationAdded(R, f) ==
  /\ ruleLines = R \o <<NegationOf(f)>>
  /\ Walkable(tree, f)
  /\ ExtensionAllowed(opts.extensions, f)
  /\ Ignores(AllRules(R), Relative(f))

C12_NegationReturns ==
  wpc = "done" =>
    \A R \in BaseRuleFiles, f \in NegatedPaths :
      NegationAdded(R, f) => f \in Range(out)

\* the rules R exclude an ancestor directory of f, from the walk or as a
\* directory
AncestorExcluded(R, f) ==
  \E k \in 1..(Len(Relative(f)) - 1) :
    \/ Ignores(AllRules(R), SubSeq(Relative(f), 1, k))
    \/ TestOne(AllRules(R), SubSeq(Relative(f), 1, k), TRUE, FALSE)

\* a supplementary pattern, which comes after every line of the rule files,
\* excludes f
ExtraExcluded(f) == TestOne(extraIgnorePatterns, Relative(f), FALSE, FALSE)

\* C12 as amended: the file is returned when no ancestor directory of it is
\* excluded under R and no supplementary pattern excludes it
C12_NegationReturnsUnlessAncestor ==
  wpc = "done" =>
    \A R \in BaseRuleFiles, f \in NegatedPaths :
      NegationAdded(R, f) /\ ~AncestorExcluded(R, f) /\ ~ExtraExcluded(f)
        => f \in Range(out)

\* a finished scan returned a re-included file that lies in a subdirectory
C12_Witness ==
  /\ wpc = "done"
  /\ NegationAdded(<< Rule(FALSE, FALSE, FALSE, <<Lit("m.F90")>>) >>, PathM)
  /\ ~AncestorExcluded(<< Rule(FALSE, FALSE, FALSE, <<Lit("m.F90")>>) >>, PathM)
  /\ PathM \in Range(out)

(***************************************************************************)
(* C13.  scan returns every regular file under the root that the rules do  *)
(* not ignore and whose lower-cased extension is allowed (every such file  *)
(* when no extension is given), each exactly once, and nothing else: no    *)
(* directory, no symbolic link, no file with another extension.            *)
(***************************************************************************)
\* the files scan is to return
Candidates ==
  { p \in NodePaths :
      /\ Walkable(tree, p)
      /\ ~Ignores(WalkRules, Relative(p))
      /\ ExtensionAllowed(opts.extensions, p) }

C13_ExactlyTheCandidates ==
  wpc = "done" =>
    /\ Range(out) = Candidates
    /\ \A m, n \in DOMAIN out : out[m] = out[n] => m = n

\* the part of C13 that holds: nothing but candidates, none twice
OnlyCandidates ==
  /\ Range(out) \subseteq Candidates
  /\ \A m, n \in DOMAIN out : out[m] = out[n] => m = n

(***************************************************************************)
(* C14.  The code of every construct extractTags emits is the lines        *)
(* startLine..endLine of the file, joined by "\n", with the white space at *)
(* both ends trimmed; for a construct closed by a closer and for one        *)
(* closed at the end of the file alike.                                    *)
(***************************************************************************)
C14_CodeIsTrimmedSpan ==
  \A n \in DOMAIN tags :
    tags[n].code = Trim(JoinLines([k \in 1..(tags[n].endLine - tags[n].startLine + 1) |->
                                     originalLines[tags[n].startLine + k - 1]]))

\* a subroutine left open around a program that a closer closed: both are
\* emitted, and the code of the subroutine lost its leading blanks
C14_Witness ==
  /\ fpc = "done"
  /\ originalLines = <<LineSubroutine, LineProgram, LineEnd>>
  /\ Len(tags) = 2
  /\ tags[1].startLine = 2 /\ tags[1].endLine = 3
  /\ tags[2].startLine = 1 /\ tags[2].endLine = 3
  /\ tags[2].code # JoinLines(originalLines)
  /\ tags[2].code = Drop(JoinLines(originalLines), 2)

(***************************************************************************)
(* C15.  A construct still on the stack at the end of the file is emitted  *)
(* with endLine = the number of the last line of the file, also when the   *)
(* text of the file ends with a line terminator.                           *)
(***************************************************************************)
\* the text ends with a line terminator
Terminated(text) == text # <<>> /\ text[Len(text)] = "\n"

\* the number of the last line of a text: a line terminator ends a line, and
\* what follows the last terminator, when there is anything, is one more line
LastLineOf(text) ==
  Cardinality({ k \in DOMAIN text : text[k] = "\n" })
    + (IF text # <<>> /\ ~Terminated(text) THEN 1 ELSE 0)

\* the while loop emits a construct
ForceClosing == fpc = "while" /\ Len(tags') = Len(tags) + 1

C15_ForceClosedAtLastLine ==
  [][ForceClosing => tags'[Len(tags')].endLine = LastLineOf(source)]_vars

\* C15 for the texts that do not end with a line terminator
ForceClosedAtLastLineUnterminated ==
  [][ForceClosing /\ ~Terminated(source) =>
       tags'[Len(tags')].endLine = LastLineOf(source)]_vars

(***************************************************************************)
(* C16.  Every construct extractTags emits has 1 <= startLine <= endLine,  *)
(* a name that is not empty, and a kind among program, module, subroutine, *)
(* function and type.                                                      *)
(***************************************************************************)
FortranKinds == {"program", "module", "subroutine", "function", "type"}

C16_WellFormedConstructs ==
  \A n \in DOMAIN tags :
    /\ 1 <= tags[n].startLine
    /\ tags[n].startLine <= tags[n].endLine
    /\ tags[n].name # <<>>
    /\ tags[n].kind \in FortranKinds

\* a program around a declaration that starts with the keyword type: the
\* declaration opens nothing and the program alone is emitted
C16_Witness ==
  /\ fpc = "done"
  /\ originalLines = <<LineProgram, LineTypeDecl, LineEnd>>
  /\ Len(tags) = 1
  /\ tags[1].kind = "program" /\ tags[1].name = <<"p">>
  /\ tags[1].startLine = 1 /\ tags[1].endLine = 3

(***************************************************************************)
(* C17.  getActiveScanners returns every registered strategy, in           *)
(* registration order, for a null or empty request; for a list it returns  *)
(* the strategies of the known identifiers in the requested order, leaves  *)
(* out each unknown identifier with a warning, and does not fail.          *)
(***************************************************************************)
\* the identifier names a registered strategy, whatever its case
Registered(lang) ==
  \E k \in DOMAIN ALL_SCANNERS :
    LangSpelling[ALL_SCANNERS[k].lang] = ToLowerCase(LangSpelling[lang])

NotRegistered(lang) == ~Registered(lang)

\* the strategy registered for a registered identifier
StrategyOf(lang) ==
  LET k == CHOOSE j \in DOMAIN ALL_SCANNERS :
             LangSpelling[ALL_SCANNERS[j].lang] = ToLowerCase(LangSpelling[lang])
  IN ALL_SCANNERS[k].scanner

\* the registered strategies
Strategies == { ALL_SCANNERS[k].scanner : k \in DOMAIN ALL_SCANNERS }

C17_ActiveScanners ==
  rpc = "done" =>
    IF ~request.given \/ request.langs = <<>>
    THEN chosen = <<"TypeScriptScanner", "FortranScanner">> /\ warned = <<>>
    ELSE LET known == SelectSeq(request.langs, Registered)
         IN /\ chosen = [k \in DOMAIN known |-> StrategyOf(known[k])]
            /\ warned = SelectSeq(request.langs, NotRegistered)

\* C17 for the requests that hold no name of a member of Object.prototype
ActiveScannersOfOwnNames ==
  rpc = "done" /\ (\A k \in DOMAIN request.langs : request.langs[k] \notin DOMAIN ObjectPrototype)
    => C17_ActiveScanners

\* the steps of RSpec and the function getActiveScanners agree
RCallIsGetActiveScanners ==
  rpc = "done" =>
    chosen = getActiveScanners(IF request.given THEN request.langs ELSE <<>>)

(***************************************************************************)
(* C18.  A run whose requested languages resolve to no strategy ends in    *)
(* failure before it walks, extracts or writes: no file is listed, no      *)
(* extraction is called, no update is under way, and the persisted index   *)
(* is what it was when the run started.                                    *)
(***************************************************************************)
C18_NoScannersNoWork ==
  hist.op = "exit" =>
    /\ indexFile = hist.prior
    /\ hist.allFiles = <<>>
    /\ hist.calls = <<>>
    /\ hist.updatePaths = <<>>
    /\ pc = "idle"

\* a run asked for an unregistered language over an index that holds entries
C18_Witness ==
  /\ hist.op = "exit"
  /\ hist.scanners = <<>>
  /\ hist.prior = ForeignIndex
  /\ indexFile = ForeignIndex

(***************************************************************************)
(* C19.  An incremental update takes an index file that is missing, one    *)
(* that does not parse and one that holds no array for an empty index, and *)
(* prints a warning when the file holds no array; it goes on and writes an *)
(* index that holds entries for requested paths only.                      *)
(***************************************************************************)
\* the update that is going on or was made last began over a file that is no
\* index
BeganWithoutIndex ==
  /\ hist.op \in {"updating", "update"}
  /\ hist.prior.state \in {"missing", "unparsable", "notarray"}

C19_BadIndexIsEmptyWithWarning ==
  /\ BeganWithoutIndex /\ hist.updatePaths = <<>> => contextMap = <<>>
  /\ BeganWithoutIndex /\ hist.prior.state = "notarray" => warned # <<>>
  /\ BeganWithoutIndex /\ hist.op = "update" =>
       /\ indexFile.state = "array"
       /\ \A n \in DOMAIN indexFile.entries :
            indexFile.entries[n].filePath \in RequestedPaths

\* C19 without its sentence on the warning
BadIndexIsEmpty ==
  /\ BeganWithoutIndex /\ hist.updatePaths = <<>> => contextMap = <<>>
  /\ BeganWithoutIndex /\ hist.op = "update" =>
       /\ indexFile.state = "array"
       /\ \A n \in DOMAIN indexFile.entries :
            indexFile.entries[n].filePath \in RequestedPaths

(***************************************************************************)
(* C20.  The order of the constructs extractTags returns is last in, first *)
(* out: a construct opened while another was still open comes before that  *)
(* other one; the constructs closed at the end of the file come after all  *)
(* those a closer closed, the innermost of them first.                     *)
(***************************************************************************)
\* inner was opened while outer was open: outer starts first and is not
\* closed before inner starts
OpenedInside(inner, outer) ==
  outer.startLine < inner.startLine /\ inner.startLine <= outer.endLine

NestedFirst ==
  \A a, b \in DOMAIN tags : OpenedInside(tags[a], tags[b]) => a < b

\* the construct the step emits is the innermost one that was open
InnermostEmitted ==
  \A n \in DOMAIN stack' : stack'[n].startLine < tags'[Len(tags')].startLine

C20_LifoOrder ==
  /\ []NestedFirst
  /\ [][/\ Len(tags') > Len(tags) => InnermostEmitted
        /\ fpc # "for" => fpc' # "for"]_vars

\* a closer closed the innermost of three constructs and the end of the file
\* closed the other two, the inner one first
C20_Witness ==
  /\ fpc = "done"
  /\ originalLines = <<LineSubroutine, LineProgram, LineProgram, LineEnd>>
  /\ Len(tags) = 3
  /\ tags[1].startLine = 3 /\ tags[2].startLine = 2 /\ tags[3].startLine = 1
  /\ tags[3].kind = "subroutine"

(***************************************************************************)
(* C21.  An exception thrown by one scanner's extractTags on one file ends *)
(* no run.  In a full scan the next scanner is called for that file, every *)
(* other walked file is offered to the scanners, and the index is written  *)
(* with the entries of the files that are claimed.  In an incremental      *)
(* update the next scanner is called for that path, the update stays under *)
(* way for the other requested paths, and the index is written.            *)
(***************************************************************************)
\* some call of the run threw
SomeCallThrew == \E n \in DOMAIN hist.calls : hist.calls[n].outcome.threw

\* after a call that threw, the call of the next scanner for the same file
NextScannerTried ==
  \A n \in DOMAIN hist.calls :
    hist.calls[n].outcome.threw /\ hist.calls[n].k < Len(hist.scanners) =>
      /\ n + 1 \in DOMAIN hist.calls
      /\ hist.calls[n + 1].filePath = hist.calls[n].filePath
      /\ hist.calls[n + 1].k = hist.calls[n].k + 1

\* the index holds the entry of every listed file that some scanner claims
ClaimedAreWritten(files) ==
  /\ indexFile.state = "array"
  /\ \A f \in files :
       FirstClaimers(f) # {} => EntriesFor(indexFile.entries, f) # <<>>

C21_ThrowEndsNoRun ==
  SomeCallThrew =>
    /\ NextScannerTried
    /\ hist.op = "full" =>
         /\ \A f \in Range(hist.allFiles) : CallsFor(hist.calls, f) # <<>>
         /\ ClaimedAreWritten(Range(hist.allFiles))
    /\ hist.op = "updating" =>
         /\ pc = "update"
         /\ \A f \in RequestedPaths : Processed(f) => CallsFor(hist.calls, f) # <<>>
    /\ hist.op = "update" =>
         /\ pc = "idle"
         /\ \A f \in RequestedPaths : Processed(f) => EntriesFor(indexFile.entries, f) # <<>>

\* a full scan with two scanners in which the first threw on a file that was
\* walked before a file that the second claimed
C21_Witness ==
  /\ hist.op = "full"
  /\ Len(hist.scanners) = 2
  /\ \E m, n \in DOMAIN hist.calls :
       /\ m < n
       /\ hist.calls[m].outcome.threw /\ hist.calls[m].k = 1
       /\ hist.calls[n].filePath # hist.calls[m].filePath
       /\ Claims(hist.calls[n].outcome)
       /\ EntriesFor(indexFile.entries, hist.calls[n].filePath) # <<>>

\* an update in which a scanner threw on the first requested path and the
\* second requested path got its entry
C21_WitnessUpdate ==
  /\ hist.op = "update"
  /\ Len(hist.updatePaths) = 2
  /\ \E m, n \in DOMAIN hist.calls :
       /\ m < n
       /\ hist.calls[m].outcome.threw
       /\ hist.calls[n].filePath # hist.calls[m].filePath
       /\ Claims(hist.calls[n].outcome)
       /\ EntriesFor(indexFile.entries, hist.calls[n].filePath) # <<>>

(***************************************************************************)
(* C22.  A rule file that exists under the root and cannot be read is      *)
(* skipped with a warning: loading goes on with the other rule files and   *)
(* the extra patterns, and nothing is thrown.  A rule file that is missing *)
(* is skipped without a warning.                                           *)
(***************************************************************************)
\* the lines of the rule files that can be read, in the order of the files
RECURSIVE ReadableLines(_)
ReadableLines(files) ==
  IF files = <<>> THEN <<>>
  ELSE (IF Head(files).state = "file" THEN RuleFileLines(Head(files).text) ELSE <<>>)
       \o ReadableLines(Tail(files))

UnreadableFiles == { k \in DOMAIN igFiles : igFiles[k].state = "unreadable" }

C22_UnreadableRuleFileSkipped ==
  /\ cpc # "threw"
  /\ cpc = "done" =>
       /\ ig.lines = ReadableLines(igFiles)
       /\ ig.extra
       /\ Len(warned) = Cardinality(UnreadableFiles)

\* C22 for the roots none of whose rule files is unreadable
RuleFilesLoaded ==
  UnreadableFiles = {} =>
    /\ cpc # "threw"
    /\ cpc = "done" =>
         /\ ig.lines = ReadableLines(igFiles)
         /\ ig.extra
         /\ warned = <<>>

(***************************************************************************)
(* C23.  When the reading of a directory fails during the walk, the files  *)
(* beneath that directory, and only they, are missing from the result:     *)
(* every file that scan returns when the directory can be read and that    *)
(* does not lie beneath it is still returned, a warning is printed, and    *)
(* scan returns.                                                           *)
(***************************************************************************)
\* the directories of the tree that may not be listed
Denied == { d \in NodePaths : tree[d].type = "dir" /\ tree[d].content = "denied" }

\* the tree with every directory readable
Readable == [p \in NodePaths |-> IF p \in Denied THEN DirNode ELSE tree[p]]

\* the walk tried to read a directory and failed
ReadFailed == \E n \in DOMAIN dirsRead : dirsRead[n] \in Denied

C23_OnlyFailingSubtreeMissing ==
  /\ wpc = "done" =>
       /\ Range(out) =
            Range(scan(Readable, ruleLines, opts.extensions, opts.ord))
              \ UNION { Under(d) : d \in Denied }
       /\ Len(warned) = Cardinality({ d \in Denied : \E n \in DOMAIN dirsRead : dirsRead[n] = d })
  /\ wpc = "walk" /\ pending = <<>> => ENABLED WReturn

\* a finished scan that failed to read sub, returned a.ts, and would have
\* returned sub/m.F90
C23_Witness ==
  /\ wpc = "done"
  /\ ReadFailed
  /\ PathA \in Range(out)
  /\ PathM \in Range(scan(Readable, ruleLines, opts.extensions, opts.ord))
  /\ PathM \notin Range(out)
  /\ warned = <<PathSub>>

(***************************************************************************)
(* C24.  For each declarator of a variable declaration the visitor pushes  *)
(* one construct of kind function, on the lines of the initializer, when   *)
(* the initializer is a function expression or an arrow function; one of   *)
(* kind variable, on the lines of the declarator, when there is any other  *)
(* initializer, whatever the binding is, a destructuring pattern too; and  *)
(* nothing when there is no initializer.                                   *)
(***************************************************************************)
\* the construct the claim gives a declarator: its kind and its lines
ClaimedSpan(decl) ==
  IF decl.init \in {"arrow", "function"} THEN << [kind |-> "function", loc |-> decl.initLoc] >>
  ELSE IF decl.init = "other" THEN << [kind |-> "variable", loc |-> decl.loc] >>
  ELSE <<>>

\* the kinds and lines of the constructs a step pushed
PushedSpans ==
  [k \in 1..(Len(dtags') - Len(dtags)) |->
     [kind |-> dtags'[Len(dtags) + k].kind,
      loc |-> Loc(dtags'[Len(dtags) + k].startLine, dtags'[Len(dtags) + k].endLine)]]

C24_EveryDeclarator ==
  [][dk' = dk + 1 =>
       /\ SubSeq(dtags', 1, Len(dtags)) = dtags
       /\ PushedSpans = ClaimedSpan(statement.declarations[dk])]_vars

\* C24 as amended: the same for a declarator whose binding is an identifier,
\* which gives the construct its name; nothing for a destructuring pattern
C24_IdentifierDeclarators ==
  [][dk' = dk + 1 =>
       /\ SubSeq(dtags', 1, Len(dtags)) = dtags
       /\ PushedSpans = IF statement.declarations[dk].idType = "Identifier"
                        THEN ClaimedSpan(statement.declarations[dk]) ELSE <<>>
       /\ \A k \in (Len(dtags) + 1)..Len(dtags') :
            /\ dtags'[k].name = statement.declarations[dk].name
            /\ dtags'[k].code = getSnippet(DeclSource, Loc(dtags'[k].startLine, dtags'[k].endLine))]_vars

\* the visitor has returned from a statement that binds an arrow function to
\* an identifier and destructures another value: one function, on line 2
C24_Witness ==
  /\ dpc = "done"
  /\ Len(statement.declarations) = 2
  /\ statement.declarations[1].idType = "Identifier"
  /\ statement.declarations[1].init = "arrow"
  /\ statement.declarations[2].idType = "ObjectPattern"
  /\ statement.declarations[2].init = "other"
  /\ Len(dtags) = 1
  /\ dtags[1].kind = "function" /\ dtags[1].startLine = 2 /\ dtags[1].endLine = 2
  /\ dtags[1].name = <<"x">>

(***************************************************************************)
(* C25.  Two invocations of runIncrementalUpdate that overlap are not kept *)
(* apart: an invocation writes the index it loaded with its own entries    *)
(* set in it, so when q loaded before p wrote and q writes after p, the    *)
(* index that q leaves holds no entry of a path that p added unless q was  *)
(* asked for that path itself: the update of p is lost.                    *)
(***************************************************************************)
FilePathsOf(contexts) == { contexts[k].filePath : k \in DOMAIN contexts }

\* the event comes before the other in events
Before(e, f) ==
  \E a, b \in DOMAIN events : a < b /\ events[a] = e /\ events[b] = f

\* q loaded the index before p wrote it, and wrote it after p
Overlapped(p, q) ==
  /\ Before(<<"load", q>>, <<"write", p>>)
  /\ Before(<<"write", p>>, <<"write", q>>)

\* the paths whose entries p added to the index it loaded
AddedBy(p) ==
  FilePathsOf(procs[p].contextMap) \ FilePathsOf(procs[p].existingContexts)

RequestedBy(q) ==
  { Resolve(procs[q].updatePaths[k]) : k \in DOMAIN procs[q].updatePaths }

C25_LostUpdate ==
  \A p, q \in DOMAIN procs :
    Overlapped(p, q) =>
      /\ indexFile = ArrayIndex(procs[q].contextMap)
      /\ FilePathsOf(procs[q].contextMap)
           \subseteq FilePathsOf(procs[q].existingContexts) \cup RequestedBy(q)
      /\ \A filePath \in AddedBy(p) \ RequestedBy(q) :
           filePath \notin FilePathsOf(indexFile.entries)

\* both invocations have written, each added the entry of its own path, and
\* the index holds the entry of the second alone
C25_Witness ==
  /\ Overlapped(1, 2)
  /\ AddedBy(1) = {PathA}
  /\ AddedBy(2) = {PathM}
  /\ FilePathsOf(indexFile.entries) = {PathM}

(***************************************************************************)
(* C26.  In every index that runs of the full scan and of the incremental  *)
(* update leave, an entry has the language "unknown" exactly when it has   *)
(* no tags, and an entry with tags has the name of a registered scanner    *)
(* whose supportedExtensions hold the lower-cased extension of filePath.   *)
(* The index the runs start from is absent, or is one of which the same    *)
(* is true.                                                                *)
(***************************************************************************)
RegisteredScanners == { ALL_SCANNERS[k].scanner : k \in DOMAIN ALL_SCANNERS }

LanguageMatchesTags(ctx) ==
  /\ ctx.language = Unknown <=> ctx.tags = <<>>
  /\ ctx.tags # <<>> =>
       \E scanner \in RegisteredScanners :
         /\ ctx.language = getScannerName(scanner)
         /\ ToLowerCase(ExtName(ctx.filePath)) \in Range(supportedExtensions(scanner))

C26_LanguageMatchesTags ==
  \A k \in DOMAIN indexFile.entries : LanguageMatchesTags(indexFile.entries[k])

\* an update has left an entry with tags for sub/m.F90, whose extension has
\* capital letters, and an entry without tags for a.ts
C26_Witness ==
  /\ hist.op = "update"
  /\ \E k \in DOMAIN indexFile.entries :
       /\ indexFile.entries[k].filePath = PathM
       /\ indexFile.entries[k].language = getScannerName("FortranScanner")
       /\ indexFile.entries[k].tags # <<>>
  /\ \E k \in DOMAIN indexFile.entries :
       /\ indexFile.entries[k].filePath = PathA
       /\ indexFile.entries[k].language = Unknown
  /\ Len(indexFile.entries) = 2

(***************************************************************************)
(* C27.  The incremental update does not consult the ignore rules: every   *)
(* iteration for a path that exists, is a regular file and has an          *)
(* extension of the active scanners leaves an entry for the path in the    *)
(* Map, whether or not the rules exclude it, and the entry is in the index *)
(* the update writes.                                                      *)
(***************************************************************************)
\* the path of the iteration a step has made
SteppedPath == Resolve(hist'.updatePaths[Len(hist'.updatePaths)])

C27_UpdateEntersIgnored ==
  /\ [][(pc = "update" /\ pc' = "update"
           /\ IsRegularFile(tree, SteppedPath)
           /\ ExtensionSupported(collectExtensions(hist.scanners), SteppedPath))
          => SteppedPath \in FilePathsOf(contextMap')]_vars
  /\ [][(pc = "update" /\ pc' = "idle")
          => \A k \in DOMAIN hist.updatePaths :
               (/\ IsRegularFile(tree, Resolve(hist.updatePaths[k]))
                /\ ExtensionSupported(collectExtensions(hist.scanners),
                                      Resolve(hist.updatePaths[k])))
               => Resolve(hist.updatePaths[k]) \in FilePathsOf(indexFile'.entries)]_vars

\* an update has written an entry for a.ts, which the rule file excludes and
\* which no full scan of the tree with the same scanners enters
C27_Witness ==
  /\ hist.op = "update"
  /\ hist.prior = MissingIndex
  /\ IgnoresOf[ruleLines][PathA]
  /\ PathA \in FilePathsOf(indexFile.entries)
  /\ \A ord \in Orders :
       PathA \notin FilePathsOf(runFullScan(tree, ruleLines, indexFile,
                                            hist.scanners, ord).written.entries)

(***************************************************************************)
(* C28.  The name of every construct the Fortran scanner emits or holds on *)
(* its stack is the identifier after the keyword on the opener line, in    *)
(* lower case, while the code of an emitted construct has the characters   *)
(* of the original lines, in the letter case they were written in.         *)
(***************************************************************************)
\* the identifier after the keyword of the kind on the line, as written
WrittenIdentifier(kind, line) == OpenerName(KeywordOf(kind), Trim(BeforeBang(line)))

\* the lines from..to of the file, joined, as written
WrittenSpan(from, to) ==
  JoinLines([k \in 1..(to - from + 1) |-> originalLines[from + k - 1]])

NameIsLowerCased(rec) ==
  /\ rec.name = ToLowerCase(WrittenIdentifier(rec.kind, originalLines[rec.startLine]))
  /\ \A k \in DOMAIN rec.name : rec.name[k] \notin Range(UpperLetters)

CodeKeepsCase(tag) ==
  \A k \in DOMAIN tag.code :
    tag.code[k] = WrittenSpan(tag.startLine, tag.endLine)
                    [k + LeadingSpaces(WrittenSpan(tag.startLine, tag.endLine))]

C28_NameLowerCodeAsWritten ==
  /\ \A n \in DOMAIN stack : NameIsLowerCased(stack[n])
  /\ \A n \in DOMAIN tags : NameIsLowerCased(tags[n]) /\ CodeKeepsCase(tags[n])

\* "  SUBROUTINE Sub1(x) ! end" closed by "end": the name is sub1 and the code
\* starts with the capital letters of the line
C28_Witness ==
  /\ fpc = "done"
  /\ originalLines = <<LineSubroutine, LineEnd>>
  /\ Len(tags) = 1
  /\ tags[1].name = <<"s","u","b","1">>
  /\ WrittenIdentifier("subroutine", LineSubroutine) = <<"S","u","b","1">>
  /\ SubSeq(tags[1].code, 1, 15)
       = <<"S","U","B","R","O","U","T","I","N","E"," ","S","u","b","1">>

(***************************************************************************)
(* C29.  An incremental update keeps the order of the prior index: the     *)
(* written index lists each filePath once; the paths of the prior index    *)
(* come first, in the order in which the prior index lists them first, a   *)
(* replaced entry in the place of its path; and the paths that the prior   *)
(* index did not hold follow, in the order in which they were requested.   *)
(***************************************************************************)
\* the place at which the entries list filePath first
FirstPlace(entries, filePath) ==
  CHOOSE n \in DOMAIN entries :
    /\ entries[n].filePath = filePath
    /\ \A m \in 1..(n - 1) : entries[m].filePath # filePath

\* the place of the first request that resolves to filePath
FirstRequest(filePath) ==
  CHOOSE n \in DOMAIN hist.updatePaths :
    /\ Resolve(hist.updatePaths[n]) = filePath
    /\ \A m \in 1..(n - 1) : Resolve(hist.updatePaths[m]) # filePath

PriorPaths == FilePathsOf(hist.prior.entries)
NewPaths == { f \in RequestedPaths : Processed(f) } \ PriorPaths

C29_OrderPreserved ==
  hist.op = "update" =>
    /\ \A m, n \in DOMAIN indexFile.entries :
         indexFile.entries[m].filePath = indexFile.entries[n].filePath => m = n
    /\ FilePathsOf(indexFile.entries) = PriorPaths \cup NewPaths
    /\ \A f, g \in PriorPaths :
         FirstPlace(hist.prior.entries, f) < FirstPlace(hist.prior.entries, g)
           => FirstPlace(indexFile.entries, f) < FirstPlace(indexFile.entries, g)
    /\ \A f \in PriorPaths, g \in NewPaths :
         FirstPlace(indexFile.entries, f) < FirstPlace(indexFile.entries, g)
    /\ \A f, g \in NewPaths :
         FirstRequest(f) < FirstRequest(g)
           => FirstPlace(indexFile.entries, f) < FirstPlace(indexFile.entries, g)

\* the prior index lists a.ts, sub/m.F90 and a.ts again; the update of
\* sub/m.F90 replaced its entry in the second place
C29_Witness ==
  /\ hist.op = "update"
  /\ hist.prior = ForeignIndex
  /\ RequestedPaths = {PathM}
  /\ Len(indexFile.entries) = 2
  /\ indexFile.entries[1].filePath = PathA
  /\ indexFile.entries[2].filePath = PathM
  /\ indexFile.entries[2] # hist.prior.entries[2]

\* the prior index holds sub/m.F90 alone; the update of a.ts and then of
\* sub/m.F90 left sub/m.F90 first and appended a.ts
C29_WitnessAppended ==
  /\ hist.op = "update"
  /\ Len(hist.prior.entries) = 1
  /\ hist.prior.entries[1].filePath = PathM
  /\ Len(hist.updatePaths) = 2
  /\ Resolve(hist.updatePaths[1]) = PathA
  /\ Resolve(hist.updatePaths[2]) = PathM
  /\ Len(indexFile.entries) = 2
  /\ indexFile.entries[1].filePath = PathM
  /\ indexFile.entries[2].filePath = PathA

(***************************************************************************)
(* C30.  The incremental update is idempotent on an unchanged tree: when   *)
(* an invocation runs from its load to its write after another with the    *)
(* same updatePaths and the same scanners has written, the index it writes *)
(* is the index the other left, entry for entry in the same order.         *)
(***************************************************************************)
\* q made its whole run after the run of p, with the updatePaths of p
RepeatedUpdate(p, q) ==
  /\ Before(<<"load", p>>, <<"write", p>>)
  /\ Before(<<"write", p>>, <<"load", q>>)
  /\ Before(<<"load", q>>, <<"write", q>>)
  /\ procs[p].updatePaths = procs[q].updatePaths

C30_UpdateIdempotent ==
  \A p, q \in DOMAIN procs :
    RepeatedUpdate(p, q) =>
      /\ indexFile.state = "array"
      /\ indexFile.entries = procs[q].existingContexts

\* the update of sub/m.F90 and a.ts was made twice from an absent index; the
\* index holds the two entries in the order the first run left them
C30_Witness ==
  /\ RepeatedUpdate(1, 2)
  /\ procs[1].existingContexts = <<>>
  /\ Len(procs[2].updatePaths) = 2
  /\ Len(indexFile.entries) = 2
  /\ indexFile.entries[1].filePath = PathM
  /\ indexFile.entries[1].tags # <<>>
  /\ indexFile.entries[2].filePath = PathA

\* the first of the two runs loaded an index that lists a.ts twice and wrote
\* it with one entry for a.ts; the second run left that index as it was
C30_WitnessDuplicates ==
  /\ RepeatedUpdate(1, 2)
  /\ procs[1].existingContexts = ForeignIndex.entries
  /\ Len(indexFile.entries) = 2
  /\ indexFile.entries = procs[2].existingContexts

====
